---- MODULE Spec2Model ----
(***************************************************************************)
(* Model of the resource allocation manager (src/src/allocation_manager.py) *)
(* and of the way the MCP server dispatches calls to it (src/src/server.py).*)
(*                                                                         *)
(* Quantities.  CPU is a float in the source; every CPU value the manager  *)
(* computes is workers * worker_cpu with worker_cpu = 1.0, so CPU values   *)
(* are whole numbers and are modelled as integers.  Memory is in MB.       *)
(* Time is a discrete clock `now` (datetime.utcnow()), in seconds.         *)
(* Optional[int] values are modelled as sets: {} is None, {n} is n.        *)
(* Allocation ids (uuid4 based, fresh) are the positions of the records in *)
(* the insertion-ordered registry dict.                                    *)
(***************************************************************************)
EXTENDS Integers, Sequences, FiniteSets, TLC

VARIABLES capacity, allocations, mcp_server_registry, next_port_idx,
          now, last, tasks, running, cluster

vars == <<capacity, allocations, mcp_server_registry, next_port_idx,
          now, last, tasks, running, cluster>>

mgr == <<capacity, allocations, mcp_server_registry, next_port_idx>>

\* the Kubernetes cluster behind WorkerManager and MCPLifecycleManager; the
\* AllocationManager never talks to it
NoCluster == [nodes |-> <<>>, deployments |-> <<>>, calls |-> <<>>]

-----------------------------------------------------------------------------
(* Bounds of the model *)

MaxAllocs == 2
MaxTicks == 1
MaxReqWorkers == 2
MaxTasks == 3
MaxPortRequests == 6
MaxExpiryAllocs == 1
MaxClock == 3

(* Program constants *)

WorkerCpu == 1
WorkerMemory == 2048
PortBase == 9000
PortPoolSize == 100
WorkerPortBase == 8000
WorkerPortStride == 10
DefaultTotalCpu == 16
DefaultTotalMemory == 32768
DefaultTotalWorkers == 10
DefaultTtl == 3600
TickSeconds == 2

None == {}
NoTime == -1

-----------------------------------------------------------------------------
(* Data *)

ClusterCapacity(cpu, memory, workers) ==
    [total_cpu |-> cpu, total_memory |-> memory, total_workers |-> workers,
     allocated_cpu |-> 0, allocated_memory |-> 0, allocated_workers |-> 0,
     running_mcp_servers |-> <<>>, active_allocations |-> 0]

available_cpu(c) == c.total_cpu - c.allocated_cpu
available_memory(c) == c.total_memory - c.allocated_memory
available_workers(c) == c.total_workers - c.allocated_workers

Priorities == {"low", "normal", "high", "critical"}

\* a parse that falls back to the lowest priority
ParsePriority_fallback_low(p) == IF p \in Priorities THEN p ELSE "low"

\* Priority(priority), falling back to NORMAL on ValueError
ParsePriority(p) == IF p \in Priorities THEN p ELSE "normal"

\* `workers and workers > 0`
WorkersRequested(w) == w # None /\ \E n \in w : n # 0 /\ n > 0

WorkerCount(w) == CHOOSE n \in w : TRUE

Endpoint(port) == <<"http://localhost:", port>>

ResourceAllocation(id, job_id, priority, servers, workers, ttl, t) ==
    [allocation_id |-> id, job_id |-> job_id, state |-> "pending",
     priority |-> priority, mcp_servers |-> servers,
     workers_requested |-> workers,
     mcp_server_specs |-> <<>>, workers_allocated |-> <<>>,
     cpu_allocated |-> 0, memory_allocated |-> 0,
     created_at |-> t, activated_at |-> NoTime, released_at |-> NoTime,
     ttl_seconds |-> ttl, error |-> "none"]

\* an is_expired that already fires when exactly ttl_seconds have elapsed
is_expired_at_ttl(a, t) ==
    IF a.state \in {"released", "failed"} THEN FALSE
    ELSE LET reference_time ==
                 IF a.activated_at # NoTime THEN a.activated_at ELSE a.created_at
         IN  t >= reference_time + a.ttl_seconds

is_expired(a, t) ==
    IF a.state \in {"released", "failed"} THEN FALSE
    ELSE LET reference_time ==
                 IF a.activated_at # NoTime THEN a.activated_at ELSE a.created_at
         IN  t > reference_time + a.ttl_seconds

-----------------------------------------------------------------------------
(* AllocationManager helpers *)

\* a port allocator that never advances
allocate_port_stuck(idx) ==
    [port |-> PortBase + idx, next |-> idx]

\* _allocate_port: returns the port and the advanced index
allocate_port(idx) ==
    [port |-> PortBase + idx, next |-> (idx + 1) % PortPoolSize]

\* a _start_mcp_server that starts a fresh instance on every call
start_mcp_server_no_reuse(reg, runlist, idx, name) ==
    LET p == allocate_port(idx)
        spec == [server_name |-> name, endpoint |-> Endpoint(p.port),
                 status |-> "running", port |-> p.port]
        reg2 == [n \in DOMAIN reg \cup {name} |->
                    IF n = name THEN spec ELSE reg[n]]
        run2 == IF \E i \in 1..Len(runlist) : runlist[i] = name
                THEN runlist ELSE Append(runlist, name)
    IN  [reg |-> reg2, runlist |-> run2, idx |-> p.next, spec |-> spec]

\* a _start_mcp_server that lists the name as running on every acquisition
start_mcp_server_relisting(reg, runlist, idx, name) ==
    IF name \in DOMAIN reg /\ reg[name].status = "running"
    THEN [reg |-> reg, runlist |-> Append(runlist, name), idx |-> idx,
          spec |-> reg[name]]
    ELSE LET p == allocate_port(idx)
             spec == [server_name |-> name, endpoint |-> Endpoint(p.port),
                      status |-> "running", port |-> p.port]
             reg2 == [n \in DOMAIN reg \cup {name} |->
                         IF n = name THEN spec ELSE reg[n]]
         IN  [reg |-> reg2, runlist |-> Append(runlist, name), idx |-> p.next,
              spec |-> spec]

\* a _start_mcp_server that takes a port before it looks the name up
start_mcp_server_port_first(reg, runlist, idx, name) ==
    LET p == allocate_port(idx)
    IN  IF name \in DOMAIN reg /\ reg[name].status = "running"
        THEN [reg |-> reg, runlist |-> runlist, idx |-> p.next,
              spec |-> reg[name]]
        ELSE LET spec == [server_name |-> name, endpoint |-> Endpoint(p.port),
                          status |-> "running", port |-> p.port]
                 reg2 == [n \in DOMAIN reg \cup {name} |->
                             IF n = name THEN spec ELSE reg[n]]
                 run2 == IF \E i \in 1..Len(runlist) : runlist[i] = name
                         THEN runlist ELSE Append(runlist, name)
             IN  [reg |-> reg2, runlist |-> run2, idx |-> p.next, spec |-> spec]

\* _start_mcp_server on (registry, running list, port index)
start_mcp_server(reg, runlist, idx, name) ==
    IF name \in DOMAIN reg /\ reg[name].status = "running"
    THEN [reg |-> reg, runlist |-> runlist, idx |-> idx, spec |-> reg[name]]
    ELSE LET p == allocate_port(idx)
             spec == [server_name |-> name, endpoint |-> Endpoint(p.port),
                      status |-> "running", port |-> p.port]
             reg2 == [n \in DOMAIN reg \cup {name} |->
                         IF n = name THEN spec ELSE reg[n]]
             run2 == IF \E i \in 1..Len(runlist) : runlist[i] = name
                     THEN runlist ELSE Append(runlist, name)
         IN  [reg |-> reg2, runlist |-> run2, idx |-> p.next, spec |-> spec]

\* the loop `for server_name in mcp_servers` of request_resources
RECURSIVE start_all(_, _, _, _, _)
start_all(reg, runlist, idx, names, specs) ==
    IF names = <<>>
    THEN [reg |-> reg, runlist |-> runlist, idx |-> idx, specs |-> specs]
    ELSE LET r == start_mcp_server(reg, runlist, idx, Head(names))
         IN  start_all(r.reg, r.runlist, r.idx, Tail(names),
                       Append(specs, r.spec))

\* the decimal digits of a natural number, most significant first
RECURSIVE Digits(_)
Digits(i) == IF i < 10 THEN <<i>> ELSE Append(Digits(i \div 10), i % 10)

\* a format that keeps the last digit only
Format03d_last_digit(i) == <<0, 0, i % 10>>

\* f"{i:03d}": the digits of i, padded with zeros to three places
Format03d(i) ==
    LET d == Digits(i)
    IN  IF Len(d) >= 3 THEN d ELSE [k \in 1..(3 - Len(d)) |-> 0] \o d

\* _provision_workers: nallocs is len(self.allocations) at the call
provision_workers(count, job_id, nallocs) ==
    [k \in 1..count |->
        [worker_id |-> <<"worker", job_id, Format03d(k - 1)>>,
         worker_type |-> "cortex-worker",
         cpu |-> WorkerCpu, memory |-> WorkerMemory, status |-> "active",
         endpoint |-> Endpoint(WorkerPortBase + nallocs * WorkerPortStride
                               + (k - 1))]]

\* a _check_capacity that compares the request with the total worker count
check_capacity_vs_total(c, workers_count) ==
    IF workers_count > c.total_workers
    THEN [ok |-> FALSE, error |-> "Insufficient workers"]
    ELSE IF workers_count * WorkerCpu > available_cpu(c)
    THEN [ok |-> FALSE, error |-> "Insufficient CPU"]
    ELSE IF workers_count * WorkerMemory > available_memory(c)
    THEN [ok |-> FALSE, error |-> "Insufficient memory"]
    ELSE [ok |-> TRUE, error |-> "none"]

\* a _check_capacity that refuses a request that fits exactly
check_capacity_strict(c, workers_count) ==
    IF workers_count >= available_workers(c)
    THEN [ok |-> FALSE, error |-> "Insufficient workers"]
    ELSE IF workers_count * WorkerCpu >= available_cpu(c)
    THEN [ok |-> FALSE, error |-> "Insufficient CPU"]
    ELSE IF workers_count * WorkerMemory >= available_memory(c)
    THEN [ok |-> FALSE, error |-> "Insufficient memory"]
    ELSE [ok |-> TRUE, error |-> "none"]

\* a _check_capacity that forgets the CPU test
check_capacity_no_cpu(c, workers_count) ==
    IF workers_count > available_workers(c)
    THEN [ok |-> FALSE, error |-> "Insufficient workers"]
    ELSE IF workers_count * WorkerMemory > available_memory(c)
    THEN [ok |-> FALSE, error |-> "Insufficient memory"]
    ELSE [ok |-> TRUE, error |-> "none"]

\* _check_capacity
check_capacity(c, workers_count) ==
    IF workers_count > available_workers(c)
    THEN [ok |-> FALSE, error |-> "Insufficient workers"]
    ELSE IF workers_count * WorkerCpu > available_cpu(c)
    THEN [ok |-> FALSE, error |-> "Insufficient CPU"]
    ELSE IF workers_count * WorkerMemory > available_memory(c)
    THEN [ok |-> FALSE, error |-> "Insufficient memory"]
    ELSE [ok |-> TRUE, error |-> "none"]

-----------------------------------------------------------------------------
(* AllocationManager operations, as functions of the manager state          *)
(*   m = [capacity, allocations, mcp_server_registry, next_port_idx]        *)
(* returning the new manager state and the dict the method returns.         *)

Manager(c, a, r, i) ==
    [capacity |-> c, allocations |-> a, mcp_server_registry |-> r,
     next_port_idx |-> i]

Result(op, id, status, error, workers, cpu, memory, ids) ==
    [op |-> op, allocation_id |-> id, status |-> status, error |-> error,
     workers |-> workers, cpu |-> cpu, memory |-> memory, ids |-> ids]

NoResult == Result("none", 0, "none", "none", 0, 0, 0, <<>>)

\* a store that reuses the key of the latest record
StoreAllocation_overwrite(allocs, a) ==
    IF allocs = <<>> THEN Append(allocs, a)
    ELSE [allocs EXCEPT ![Len(allocs)] = [a EXCEPT !.allocation_id = Len(allocs)]]

\* self.allocations[allocation_id] = allocation, for a fresh allocation_id
StoreAllocation(allocs, a) == Append(allocs, a)

\* an admission that asks for one free worker slot when no worker is requested
request_admission_needs_headroom(m, workers) ==
    IF WorkersRequested(workers)
    THEN check_capacity(m.capacity, WorkerCount(workers))
    ELSE check_capacity(m.capacity, 1)

\* request_resources, lines 276-279: the admission decision
request_admission(m, workers) ==
    IF WorkersRequested(workers)
    THEN check_capacity(m.capacity, WorkerCount(workers))
    ELSE [ok |-> TRUE, error |-> "none"]

\* request_resources, lines 280-288: admission failed
request_fail(m, alloc, error) ==
    LET failed == [alloc EXCEPT !.state = "failed", !.error = error]
    IN  [m |-> [m EXCEPT !.allocations = StoreAllocation(m.allocations, failed)],
         result |-> Result("request_resources", alloc.allocation_id, "failed",
                           error, 0, 0, 0, <<>>)]

\* a commit that counts the worker slots but not their memory
commit_no_memory(c, workers, cpu, memory) ==
    [c EXCEPT !.allocated_workers = @ + workers,
              !.allocated_cpu = @ + cpu]

\* a commit that enlarges the pool by what it hands out
commit_raising_total(c, workers, cpu, memory) ==
    [c EXCEPT !.allocated_workers = @ + workers,
              !.allocated_cpu = @ + cpu,
              !.allocated_memory = @ + memory,
              !.total_workers = @ + workers]

\* request_resources, lines 302-305: the ledger commit
commit(c, workers, cpu, memory) ==
    [c EXCEPT !.allocated_workers = @ + workers,
              !.allocated_cpu = @ + cpu,
              !.allocated_memory = @ + memory]

\* request_resources, lines 290-343: servers, workers, commit, activation
request_grant(m, alloc, t) ==
    LET c0 == m.capacity
        s == start_all(m.mcp_server_registry, c0.running_mcp_servers,
                       m.next_port_idx, alloc.mcp_servers, <<>>)
        c1 == [c0 EXCEPT !.running_mcp_servers = s.runlist]
        wanted == WorkersRequested(alloc.workers_requested)
        w == IF wanted THEN WorkerCount(alloc.workers_requested) ELSE 0
        a1 == [alloc EXCEPT !.mcp_server_specs = s.specs]
        a2 == IF wanted
              THEN [a1 EXCEPT
                      !.workers_allocated =
                          provision_workers(w, alloc.job_id, Len(m.allocations)),
                      !.cpu_allocated = w * WorkerCpu,
                      !.memory_allocated = w * WorkerMemory]
              ELSE a1
        c2 == IF wanted
              THEN commit(c1, w, a2.cpu_allocated, a2.memory_allocated)
              ELSE c1
        a3 == [a2 EXCEPT !.state = "active", !.activated_at = t]
        c3 == [c2 EXCEPT !.active_allocations = @ + 1]
    IN  [m |-> Manager(c3, StoreAllocation(m.allocations, a3), s.reg, s.idx),
         result |-> Result("request_resources", alloc.allocation_id, "active",
                           "none", Len(a3.workers_allocated),
                           a3.cpu_allocated, a3.memory_allocated, <<>>)]

\* a request_resources that starts the services before the admission check
request_resources_servers_first(m, job_id, mcp_servers, workers, priority, ttl_seconds, t) ==
    LET allocation_id == Len(m.allocations) + 1
        alloc == ResourceAllocation(allocation_id, job_id,
                                    ParsePriority(priority), mcp_servers,
                                    workers, ttl_seconds, t)
        s == start_all(m.mcp_server_registry, m.capacity.running_mcp_servers,
                       m.next_port_idx, mcp_servers, <<>>)
        m1 == Manager([m.capacity EXCEPT !.running_mcp_servers = s.runlist],
                      m.allocations, s.reg, s.idx)
        adm == request_admission(m, workers)
    IN  IF ~adm.ok THEN request_fail(m1, alloc, adm.error)
        ELSE request_grant(m, alloc, t)

\* request_resources
request_resources(m, job_id, mcp_servers, workers, priority, ttl_seconds, t) ==
    LET allocation_id == Len(m.allocations) + 1
        alloc == ResourceAllocation(allocation_id, job_id,
                                    ParsePriority(priority), mcp_servers,
                                    workers, ttl_seconds, t)
        adm == request_admission(m, workers)
    IN  IF ~adm.ok THEN request_fail(m, alloc, adm.error)
        ELSE request_grant(m, alloc, t)

\* a state gate that lets a Released record through
already_released_releasing_only(a) == a.state = "releasing"

\* release_resources, line 373: the state gate
already_released(a) == a.state \in {"released", "releasing"}

\* a reversal that returns the worker slots only
reverse_workers_only(c, a) ==
    [c EXCEPT !.allocated_workers = @ - Len(a.workers_allocated)]

\* a reversal that also stops the services the allocation was granted
reverse_stopping_services(c, a) ==
    LET workers_released == Len(a.workers_allocated)
        granted(n) == \E k \in DOMAIN a.mcp_server_specs :
                         a.mcp_server_specs[k].server_name = n
        kept(n) == ~granted(n)
        c1 == [c EXCEPT !.running_mcp_servers = SelectSeq(@, kept)]
    IN  IF workers_released > 0
        THEN [c1 EXCEPT !.allocated_workers = @ - workers_released,
                        !.allocated_cpu = @ - a.cpu_allocated,
                        !.allocated_memory = @ - a.memory_allocated]
        ELSE c1

\* release_resources, lines 386-389: the ledger reversal
reverse(c, a) ==
    LET workers_released == Len(a.workers_allocated)
    IN  IF workers_released > 0
        THEN [c EXCEPT !.allocated_workers = @ - workers_released,
                       !.allocated_cpu = @ - a.cpu_allocated,
                       !.allocated_memory = @ - a.memory_allocated]
        ELSE c

\* a release that drops the worker descriptors from the record
destroy_workers_removing(ws) == <<>>

\* release_resources, lines 392-393
destroy_workers(ws) == [k \in DOMAIN ws |-> [ws[k] EXCEPT !.status = "destroying"]]

\* a reclaim that forgets to decrement active_allocations
reclaim_keeps_active_count(m, id, t) ==
    LET a == m.allocations[id]
        c1 == reverse(m.capacity, a)
        a1 == [a EXCEPT !.workers_allocated = destroy_workers(@),
                        !.state = "released", !.released_at = t]
    IN  [m |-> [m EXCEPT !.capacity = c1, !.allocations[id] = a1],
         result |-> Result("release_resources", id, "released", "none",
                           Len(a.workers_allocated), a.cpu_allocated,
                           a.memory_allocated, <<>>)]

\* a release that skips the Releasing mark
mark_releasing_skipped(m, id) == m

\* release_resources, line 381
mark_releasing(m, id) == [m EXCEPT !.allocations[id].state = "releasing"]

\* a reclaim that returns without setting the record to Released
reclaim_stays_releasing(m, id, t) ==
    LET a == m.allocations[id]
        c1 == reverse(m.capacity, a)
        a1 == [a EXCEPT !.workers_allocated = destroy_workers(@),
                        !.released_at = t]
        c2 == [c1 EXCEPT !.active_allocations = @ - 1]
    IN  [m |-> [m EXCEPT !.capacity = c2, !.allocations[id] = a1],
         result |-> Result("release_resources", id, "released", "none",
                           Len(a.workers_allocated), a.cpu_allocated,
                           a.memory_allocated, <<>>)]

\* release_resources, lines 383-412: the reclaim of one Releasing record
reclaim(m, id, t) ==
    LET a == m.allocations[id]
        c1 == reverse(m.capacity, a)
        a1 == [a EXCEPT !.workers_allocated = destroy_workers(@),
                        !.state = "released", !.released_at = t]
        c2 == [c1 EXCEPT !.active_allocations = @ - 1]
    IN  [m |-> [m EXCEPT !.capacity = c2, !.allocations[id] = a1],
         result |-> Result("release_resources", id, "released", "none",
                           Len(a.workers_allocated), a.cpu_allocated,
                           a.memory_allocated, <<>>)]

\* a release_resources that counts a release before looking the id up
release_resources_unknown_counts(m, id, t) ==
    IF id \notin DOMAIN m.allocations
    THEN [m |-> [m EXCEPT !.capacity.active_allocations = @ - 1],
          result |-> Result("release_resources", id, "error", "not found",
                            0, 0, 0, <<>>)]
    ELSE IF already_released(m.allocations[id])
    THEN [m |-> m,
          result |-> Result("release_resources", id, "already_released",
                            "none", 0, 0, 0, <<>>)]
    ELSE reclaim(mark_releasing(m, id), id, t)

\* release_resources
release_resources(m, id, t) ==
    IF id \notin DOMAIN m.allocations
    THEN [m |-> m,
          result |-> Result("release_resources", id, "error", "not found",
                            0, 0, 0, <<>>)]
    ELSE IF already_released(m.allocations[id])
    THEN [m |-> m,
          result |-> Result("release_resources", id, "already_released",
                            "none", 0, 0, 0, <<>>)]
    ELSE reclaim(mark_releasing(m, id), id, t)

\* a sweep test that forgets the expiry
sweep_selects_any_active(a, t) == a.state = "active"

\* a sweep test for the wrong state: it never finds a record to release
sweep_selects_pending(a, t) == is_expired(a, t) /\ a.state = "pending"

\* cleanup_expired_allocations, line 494: the test of one record
\* a sweep that also selects a record whose release failed, once its
\* ttl_seconds have passed
sweep_selects_failed_again(a, t) ==
    \/ is_expired(a, t) /\ a.state = "active"
    \/ /\ a.state = "failed" /\ a.error = "release_error"
       /\ t > a.activated_at + a.ttl_seconds

sweep_selects(a, t) == is_expired(a, t) /\ a.state = "active"

\* cleanup_expired_allocations: the loop over list(self.allocations.items()),
\* from position i, with the ids collected so far
RECURSIVE cleanup_from(_, _, _, _, _)
cleanup_from(m, i, n, expired, t) ==
    IF i > n THEN [m |-> m, expired |-> expired]
    ELSE IF sweep_selects(m.allocations[i], t)
    THEN cleanup_from(release_resources(m, i, t).m, i + 1, n,
                      Append(expired, i), t)
    ELSE cleanup_from(m, i + 1, n, expired, t)

cleanup_expired_allocations(m, t) ==
    LET r == cleanup_from(m, 1, Len(m.allocations), <<>>, t)
    IN  [m |-> r.m,
         result |-> Result("cleanup_expired_allocations", 0, "ok", "none",
                           0, 0, 0, r.expired)]

\* get_allocation: the fields of the returned dict that the properties read
get_allocation(m, id, t) ==
    IF id \notin DOMAIN m.allocations
    THEN [op |-> "get_allocation", allocation_id |-> id, found |-> FALSE,
          status |-> "none", age_seconds |-> 0, is_expired |-> FALSE]
    ELSE LET a == m.allocations[id]
         IN  [op |-> "get_allocation", allocation_id |-> id, found |-> TRUE,
              status |-> a.state, age_seconds |-> t - a.created_at,
              is_expired |-> is_expired(a, t)]

-----------------------------------------------------------------------------
(* The manager driven one call at a time *)

JobIds == {"j1"}
ServerLists == {<<"fs">>}
WorkerInputs == {{n} : n \in 0..MaxReqWorkers}
PriorityInputs == {"normal"}
TtlInputs == {1}

\* AllocationManager(total_cpu, total_memory, total_workers): clusters in
\* which workers, CPU or memory is the scarce quantity
Capacities ==
    { ClusterCapacity(4, 4 * WorkerMemory, 1),
      ClusterCapacity(3, 4 * WorkerMemory, 4),
      ClusterCapacity(4, 7000, 4) }

InitManager(caps) ==
    /\ capacity \in caps
    /\ allocations = <<>>
    /\ mcp_server_registry = <<>>
    /\ next_port_idx = 0

Init ==
    /\ InitManager(Capacities)
    /\ now = 0
    /\ last = NoResult
    /\ tasks = <<>>
    /\ cluster = NoCluster
    /\ running = 0

CurrentManager ==
    Manager(capacity, allocations, mcp_server_registry, next_port_idx)

\* the manager's fields and the returned dict after a call
Returns(r) ==
    /\ capacity' = r.m.capacity
    /\ allocations' = r.m.allocations
    /\ mcp_server_registry' = r.m.mcp_server_registry
    /\ next_port_idx' = r.m.next_port_idx
    /\ last' = r.result

RequestFrom(J, S, W, P, T) ==
    /\ Len(allocations) < MaxAllocs
    /\ \E job_id \in J, servers \in S, workers \in W, priority \in P, ttl \in T :
          Returns(request_resources(CurrentManager, job_id, servers, workers,
                                    priority, ttl, now))
    /\ UNCHANGED <<now, tasks, running, cluster>>

Request == RequestFrom(JobIds, ServerLists, WorkerInputs, PriorityInputs, TtlInputs)

Release ==
    /\ \E id \in 1..(MaxAllocs + 1) :
          Returns(release_resources(CurrentManager, id, now))
    /\ UNCHANGED <<now, tasks, running, cluster>>

Cleanup ==
    /\ Returns(cleanup_expired_allocations(CurrentManager, now))
    /\ UNCHANGED <<now, tasks, running, cluster>>

\* the wall clock advances between calls, as the tests let it: time.sleep(2)
Tick ==
    /\ now < MaxTicks * TickSeconds
    /\ now' = now + TickSeconds
    /\ UNCHANGED <<mgr, last, tasks, running, cluster>>

Next == Request \/ Release \/ Cleanup \/ Tick

Spec == Init /\ [][Next]_vars

-----------------------------------------------------------------------------
(* Vocabulary of the properties *)

RECURSIVE SeqSum(_)
SeqSum(s) == IF s = <<>> THEN 0 ELSE Head(s) + SeqSum(Tail(s))

Holding(a) == a.state \in {"active", "releasing"}

CommittedWorkers(allocs) ==
    SeqSum([i \in DOMAIN allocs |->
               IF Holding(allocs[i]) THEN Len(allocs[i].workers_allocated) ELSE 0])
CommittedCpu(allocs) ==
    SeqSum([i \in DOMAIN allocs |->
               IF Holding(allocs[i]) THEN allocs[i].cpu_allocated ELSE 0])
CommittedMemory(allocs) ==
    SeqSum([i \in DOMAIN allocs |->
               IF Holding(allocs[i]) THEN allocs[i].memory_allocated ELSE 0])

Counters(c) ==
    <<c.allocated_workers, c.allocated_cpu, c.allocated_memory,
      c.active_allocations>>

\* this step is a request_resources call: it stores one new record
RequestStep == Len(allocations') = Len(allocations) + 1
NewRecord == allocations'[Len(allocations')]

\* this step is a release_resources(id) call
ReleaseStep(id) ==
    /\ last'.op = "release_resources"
    /\ last'.allocation_id = id
    /\ now' = now

-----------------------------------------------------------------------------
(* C1: in every state reached by request_resources, release_resources and  *)
(* cleanup_expired_allocations calls, each ledger counter stays within its  *)
(* bounds: 0 <= allocated_workers <= total_workers, 0 <= allocated_cpu <=   *)
(* total_cpu, 0 <= allocated_memory <= total_memory.                        *)
C1_LedgerWithinBounds ==
    /\ 0 <= capacity.allocated_workers
    /\ capacity.allocated_workers <= capacity.total_workers
    /\ 0 <= capacity.allocated_cpu
    /\ capacity.allocated_cpu <= capacity.total_cpu
    /\ 0 <= capacity.allocated_memory
    /\ capacity.allocated_memory <= capacity.total_memory
    /\ available_workers(capacity) >= 0
    /\ available_cpu(capacity) >= 0
    /\ available_memory(capacity) >= 0

\* every worker slot is committed and a request has just been refused
C1_Witness ==
    /\ capacity.allocated_workers = capacity.total_workers
    /\ capacity.allocated_workers > 0
    /\ \E i \in DOMAIN allocations : allocations[i].state = "failed"
    /\ last.op = "request_resources"

(* C2: in every state between calls, allocated_workers, allocated_cpu and   *)
(* allocated_memory equal the sums of the committed workers, cpu_allocated  *)
(* and memory_allocated over the records in state Active or Releasing.      *)
C2_LedgerEqualsCommitted ==
    /\ capacity.allocated_workers = CommittedWorkers(allocations)
    /\ capacity.allocated_cpu = CommittedCpu(allocations)
    /\ capacity.allocated_memory = CommittedMemory(allocations)

\* one record holds workers while another, which held workers, is released
C2_Witness ==
    \E i, j \in DOMAIN allocations :
        /\ allocations[i].state = "active"
        /\ Len(allocations[i].workers_allocated) > 0
        /\ allocations[j].state = "released"
        /\ Len(allocations[j].workers_allocated) > 0

(* C4: releasing an Active allocation returns 'released'; releasing it      *)
(* again returns 'already_released' and leaves the ledger, the records, the *)
(* service registry and the port index unchanged.                           *)
C4_ReleaseIdempotent ==
    [][\A id \in DOMAIN allocations :
          ReleaseStep(id) =>
            /\ allocations[id].state = "active" =>
                  /\ last'.status = "released"
                  /\ allocations'[id].state = "released"
                  /\ capacity'.allocated_workers =
                        capacity.allocated_workers
                          - Len(allocations[id].workers_allocated)
                  /\ capacity'.allocated_cpu =
                        capacity.allocated_cpu - allocations[id].cpu_allocated
                  /\ capacity'.allocated_memory =
                        capacity.allocated_memory
                          - allocations[id].memory_allocated
                  /\ capacity'.active_allocations =
                        capacity.active_allocations - 1
            /\ allocations[id].state = "released" =>
                  /\ last'.status = "already_released"
                  /\ mgr' = mgr]_vars

\* the second release of an allocation that held workers has just returned
C4_Witness ==
    /\ last.op = "release_resources"
    /\ last.status = "already_released"
    /\ last.allocation_id \in DOMAIN allocations
    /\ allocations[last.allocation_id].state = "released"
    /\ Len(allocations[last.allocation_id].workers_allocated) > 0

(* C6: a request for more workers than available_workers returns 'failed'  *)
(* and leaves allocated_workers, allocated_cpu, allocated_memory and        *)
(* active_allocations as they were before the call.                         *)
C6_RefusedRequestKeepsLedger ==
    [][(/\ RequestStep
        /\ NewRecord.workers_requested # None
        /\ WorkerCount(NewRecord.workers_requested)
              > available_workers(capacity))
       => (/\ last'.status = "failed"
           /\ Counters(capacity') = Counters(capacity))]_vars

\* a request has just been refused for lack of workers while workers are held
C6_Witness ==
    /\ last.op = "request_resources"
    /\ last.status = "failed"
    /\ last.error = "Insufficient workers"
    /\ capacity.allocated_workers > 0

(* C7: a request for w > 0 workers is granted if and only if                *)
(* w <= available_workers, w * worker_cpu <= available_cpu and              *)
(* w * worker_memory <= available_memory.                                   *)
C7_AdmissionIff ==
    [][(RequestStep /\ WorkersRequested(NewRecord.workers_requested))
       => LET w == WorkerCount(NewRecord.workers_requested)
          IN  (last'.status = "active")
                <=> (/\ w <= available_workers(capacity)
                     /\ w * WorkerCpu <= available_cpu(capacity)
                     /\ w * WorkerMemory <= available_memory(capacity))]_vars

\* a request has just been refused for lack of CPU although enough worker
\* slots were free
C7_Witness ==
    /\ last.op = "request_resources"
    /\ last.status = "failed"
    /\ last.error = "Insufficient CPU"
    /\ WorkerCount(allocations[last.allocation_id].workers_requested)
          <= available_workers(capacity)

(* C8: when admission fails the record is stored under its id in state     *)
(* Failed with the reason in its metadata, the service registry, the        *)
(* running-service list and the port index are unchanged, and the record    *)
(* holds no service instance and no worker descriptor.                      *)
C8_RefusedRequestTouchesNothing ==
    [][(RequestStep /\ last'.status = "failed")
       => (/\ last'.allocation_id = Len(allocations')
           /\ NewRecord.allocation_id = last'.allocation_id
           /\ NewRecord.state = "failed"
           /\ NewRecord.error = last'.error
           /\ NewRecord.error # "none"
           /\ NewRecord.workers_allocated = <<>>
           /\ NewRecord.mcp_server_specs = <<>>
           /\ mcp_server_registry' = mcp_server_registry
           /\ capacity'.running_mcp_servers = capacity.running_mcp_servers
           /\ next_port_idx' = next_port_idx
           /\ SubSeq(allocations', 1, Len(allocations)) = allocations)]_vars

\* a refused request asked for a service that is still not registered
C8_Witness ==
    /\ last.op = "request_resources"
    /\ last.status = "failed"
    /\ allocations[last.allocation_id].mcp_servers # <<>>
    /\ \E i \in DOMAIN allocations[last.allocation_id].mcp_servers :
          allocations[last.allocation_id].mcp_servers[i]
              \notin DOMAIN mcp_server_registry

(* C9: a granted request for w > 0 workers records exactly w worker        *)
(* descriptors, commits cpu = w * 1.0 and memory = w * 2048 on the record,  *)
(* and increases allocated_workers, allocated_cpu and allocated_memory by   *)
(* exactly w, w * 1.0 and w * 2048.                                         *)
C9_GrantCommitsExactly ==
    [][(/\ RequestStep
        /\ WorkersRequested(NewRecord.workers_requested)
        /\ last'.status = "active")
       => LET w == WorkerCount(NewRecord.workers_requested)
          IN  /\ Len(NewRecord.workers_allocated) = w
              /\ NewRecord.cpu_allocated = w * WorkerCpu
              /\ NewRecord.memory_allocated = w * WorkerMemory
              /\ last'.workers = w
              /\ last'.cpu = w * WorkerCpu
              /\ last'.memory = w * WorkerMemory
              /\ capacity'.allocated_workers = capacity.allocated_workers + w
              /\ capacity'.allocated_cpu =
                    capacity.allocated_cpu + w * WorkerCpu
              /\ capacity'.allocated_memory =
                    capacity.allocated_memory + w * WorkerMemory
              /\ available_workers(capacity') =
                    available_workers(capacity) - w]_vars

\* a request for two workers has just been granted on top of another grant
C9_Witness ==
    /\ last.op = "request_resources"
    /\ last.status = "active"
    /\ last.workers = 2
    /\ capacity.allocated_workers > 2

(* C10: in every reachable state, a granted request followed by the release *)
(* of the returned id brings allocated_workers, allocated_cpu,              *)
(* allocated_memory and active_allocations back to their values before the  *)
(* request, and the release reports workers_released, cpu_freed and         *)
(* memory_freed equal to what the request committed.                        *)
C10_RequestReleaseRoundTrip ==
    \A job_id \in JobIds, servers \in ServerLists, workers \in WorkerInputs :
        LET req == request_resources(CurrentManager, job_id, servers, workers,
                                     "normal", DefaultTtl, now)
            rel == release_resources(req.m, req.result.allocation_id, now)
        IN  req.result.status = "active" =>
              /\ rel.result.status = "released"
              /\ Counters(rel.m.capacity) = Counters(capacity)
              /\ rel.result.workers = req.result.workers
              /\ rel.result.cpu = req.result.cpu
              /\ rel.result.memory = req.result.memory

\* an allocation holding workers has just been released while another one
\* still holds workers
C10_Witness ==
    /\ last.op = "release_resources"
    /\ last.status = "released"
    /\ last.workers > 0
    /\ \E i \in DOMAIN allocations :
          /\ allocations[i].state = "active"
          /\ Len(allocations[i].workers_allocated) > 0

-----------------------------------------------------------------------------
(* The MCP server: handle_call_tool coroutines and the periodic sweep on    *)
(* one asyncio event loop.  `tasks` holds the handler invocations in        *)
(* flight, each with its position pc inside the manager method it calls and *)
(* the method's local variables; `running` is the task that holds the       *)
(* thread (0 when the loop is idle).  The manager methods are split at      *)
(* their check / act boundaries so that the scheduling decides atomicity.   *)

ServerWorkerInputs == {{4}, {6}}
ReleaseIds == {1}

NoAdmission == [ok |-> TRUE, error |-> "none"]

Task(op, workers, id, arrived) ==
    [op |-> op, workers |-> workers, allocation_id |-> id, pc |-> "start",
     adm |-> NoAdmission, i |-> 0, n |-> 0, expired |-> <<>>,
     result |-> NoResult, arrived |-> arrived, created_at |-> NoTime]

InitServer ==
    /\ InitManager({ClusterCapacity(DefaultTotalCpu, DefaultTotalMemory,
                                    DefaultTotalWorkers)})
    /\ now = 0
    /\ last = NoResult
    /\ tasks = <<>>
    /\ cluster = NoCluster
    /\ running = 0

SetManager(m) ==
    /\ capacity' = m.capacity
    /\ allocations' = m.allocations
    /\ mcp_server_registry' = m.mcp_server_registry
    /\ next_port_idx' = m.next_port_idx

\* a preemptive scheduler: any step of a handler may be followed by another
\* handler's step
YieldsAnywhere(task) == TRUE

\* handle_call_tool calls the manager method synchronously, with no await
\* inside it: a handler gives up the thread only when it has returned.  The
\* periodic task (the one with the flag `raised`) gives it up only at its
\* own await, line 396: the return of the sweep (line 397) is followed by
\* lines 398-399 and 394-396 on the same thread
Yields(task) ==
    IF "raised" \in DOMAIN task THEN task.pc = "sleep" ELSE task.pc = "done"

Runnable(t) == running \in {0, t} /\ tasks[t].pc # "done"

\* task t takes one step to the task record nt
Advance(t, nt) ==
    /\ tasks' = [tasks EXCEPT ![t] = nt]
    /\ running' = IF Yields(nt) THEN 0 ELSE t

\* a client issues a tool call, or the periodic sweep wakes up
Submit ==
    /\ Len(tasks) < MaxTasks
    /\ \/ \E w \in ServerWorkerInputs :
             tasks' = Append(tasks, Task("request_resources", w, 0,
                                         Len(allocations)))
       \/ \E id \in ReleaseIds :
             tasks' = Append(tasks, Task("release_resources", None, id,
                                         Len(allocations)))
       \/ tasks' = Append(tasks, Task("cleanup_expired_allocations", None, 0,
                                      Len(allocations)))
    /\ UNCHANGED <<mgr, now, last, running, cluster>>

\* request_resources, lines 256-279: build the record, whose created_at is
\* the time of its construction (lines 265-274), and test the capacity
ReqCheck(t) ==
    /\ Runnable(t)
    /\ tasks[t].op = "request_resources" /\ tasks[t].pc = "start"
    /\ Advance(t, [tasks[t] EXCEPT
                     !.pc = "checked",
                     !.created_at = now,
                     !.adm = request_admission(CurrentManager, tasks[t].workers)])
    /\ UNCHANGED <<mgr, now, last, cluster>>

\* request_resources, lines 280-343: act on the admission decision; the
\* handler's locals are gone when it has returned
ReqApply(t) ==
    /\ Runnable(t)
    /\ tasks[t].op = "request_resources" /\ tasks[t].pc = "checked"
    /\ LET alloc == ResourceAllocation(Len(allocations) + 1, "j1", "normal",
                                       <<"fs">>, tasks[t].workers, 1,
                                       tasks[t].created_at)
           r == IF ~tasks[t].adm.ok
                THEN request_fail(CurrentManager, alloc, tasks[t].adm.error)
                ELSE request_grant(CurrentManager, alloc, now)
       IN  /\ SetManager(r.m)
           /\ Advance(t, [tasks[t] EXCEPT !.pc = "done", !.result = r.result,
                                          !.adm = NoAdmission,
                                          !.created_at = NoTime])
    /\ UNCHANGED <<now, last, cluster>>

\* release_resources, lines 365-381: unknown id, state gate, mark Releasing
RelGate(t) ==
    /\ Runnable(t)
    /\ tasks[t].op = "release_resources" /\ tasks[t].pc = "start"
    /\ LET id == tasks[t].allocation_id
       IN  IF id \notin DOMAIN allocations \/ already_released(allocations[id])
           THEN /\ Advance(t, [tasks[t] EXCEPT
                                 !.pc = "done",
                                 !.result = release_resources(CurrentManager,
                                                              id, now).result])
                /\ UNCHANGED mgr
           ELSE /\ SetManager(mark_releasing(CurrentManager, id))
                /\ Advance(t, [tasks[t] EXCEPT !.pc = "reclaim"])
    /\ UNCHANGED <<now, last, cluster>>

\* release_resources, lines 383-412
RelReclaim(t) ==
    /\ Runnable(t)
    /\ tasks[t].op = "release_resources" /\ tasks[t].pc = "reclaim"
    /\ LET r == reclaim(CurrentManager, tasks[t].allocation_id, now)
       IN  /\ SetManager(r.m)
           /\ Advance(t, [tasks[t] EXCEPT !.pc = "done", !.result = r.result])
    /\ UNCHANGED <<now, last, cluster>>

\* cleanup_expired_allocations, lines 492-493: list(self.allocations.items())
SweepStart(t) ==
    /\ Runnable(t)
    /\ tasks[t].op = "cleanup_expired_allocations" /\ tasks[t].pc = "start"
    /\ Advance(t, [tasks[t] EXCEPT !.pc = "check", !.i = 1,
                                   !.n = Len(allocations)])
    /\ UNCHANGED <<mgr, now, last, cluster>>

\* cleanup_expired_allocations, line 494: test the next record of the list;
\* line 495 follows with no await in between
SweepCheck(t) ==
    /\ Runnable(t)
    /\ tasks[t].op = "cleanup_expired_allocations" /\ tasks[t].pc = "check"
    /\ LET k == tasks[t].i
       IN  IF k > tasks[t].n
           THEN Advance(t, [tasks[t] EXCEPT
                              !.pc = "done", !.i = 0, !.n = 0,
                              !.expired = <<>>,
                              !.result = Result("cleanup_expired_allocations",
                                                0, "ok", "none", 0, 0, 0,
                                                tasks[t].expired)])
           ELSE IF sweep_selects(allocations[k], now)
           THEN Advance(t, [tasks[t] EXCEPT !.pc = "call_release"])
           ELSE Advance(t, [tasks[t] EXCEPT !.i = k + 1])
    /\ UNCHANGED <<mgr, now, last, cluster>>

\* cleanup_expired_allocations, line 495: the call of release_resources, up
\* to its state gate (lines 365-381); line 496 when the call returns there
SweepCall(t) ==
    /\ Runnable(t)
    /\ tasks[t].op = "cleanup_expired_allocations"
    /\ tasks[t].pc = "call_release"
    /\ LET k == tasks[t].i
       IN  IF k \notin DOMAIN allocations \/ already_released(allocations[k])
           THEN /\ Advance(t, [tasks[t] EXCEPT !.pc = "check", !.i = k + 1,
                                               !.expired = Append(@, k)])
                /\ UNCHANGED mgr
           ELSE /\ SetManager(mark_releasing(CurrentManager, k))
                /\ Advance(t, [tasks[t] EXCEPT !.pc = "call_reclaim"])
    /\ UNCHANGED <<now, last, cluster>>

\* cleanup_expired_allocations, lines 495-496: the rest of the release call
\* (lines 383-412), then expired.append(allocation_id)
SweepReclaim(t) ==
    /\ Runnable(t)
    /\ tasks[t].op = "cleanup_expired_allocations"
    /\ tasks[t].pc = "call_reclaim"
    /\ LET k == tasks[t].i
           r == reclaim(CurrentManager, k, now)
       IN  /\ SetManager(r.m)
           /\ Advance(t, [tasks[t] EXCEPT !.pc = "check", !.i = k + 1,
                                          !.expired = Append(@, k)])
    /\ UNCHANGED <<now, last, cluster>>

\* the wall clock advances, also while a handler is inside its call
ServerTick ==
    /\ now < MaxTicks * TickSeconds
    /\ now' = now + TickSeconds
    /\ UNCHANGED <<mgr, last, tasks, running, cluster>>

RequestCheckStep == \E t \in DOMAIN tasks : ReqCheck(t)
RequestApplyStep == \E t \in DOMAIN tasks : ReqApply(t)
ReleaseGateStep == \E t \in DOMAIN tasks : RelGate(t)
ReleaseReclaimStep == \E t \in DOMAIN tasks : RelReclaim(t)
SweepStartStep == \E t \in DOMAIN tasks : SweepStart(t)
SweepCheckStep == \E t \in DOMAIN tasks : SweepCheck(t)
SweepCallStep == \E t \in DOMAIN tasks : SweepCall(t)
SweepReclaimStep == \E t \in DOMAIN tasks : SweepReclaim(t)

ServerNext ==
    \/ Submit
    \/ ServerTick
    \/ RequestCheckStep
    \/ RequestApplyStep
    \/ ReleaseGateStep
    \/ ReleaseReclaimStep
    \/ SweepStartStep
    \/ SweepCheckStep
    \/ SweepCallStep
    \/ SweepReclaimStep

\* the server as it is scheduled: every handler runs to completion
SpecServer == InitServer /\ [][ServerNext]_vars

-----------------------------------------------------------------------------
ActiveWorkers(allocs) ==
    SeqSum([i \in DOMAIN allocs |->
               IF allocs[i].state = "active"
               THEN Len(allocs[i].workers_allocated) ELSE 0])

IsRequestFor(task, n) ==
    task.op = "request_resources" /\ task.workers = {n}

\* two requests for 6 workers have both returned, both were issued before
\* either was served, no other request was served and nothing was released
TwoConcurrentRequests(t1, t2) ==
    /\ t1 # t2
    /\ IsRequestFor(tasks[t1], 6) /\ IsRequestFor(tasks[t2], 6)
    /\ tasks[t1].pc = "done" /\ tasks[t2].pc = "done"
    /\ tasks[t1].arrived = 0 /\ tasks[t2].arrived = 0
    /\ Len(allocations) = 2
    /\ \A i \in DOMAIN allocations : allocations[i].state # "released"

C3_OneOfTwoAdmitted ==
    /\ capacity.total_workers = DefaultTotalWorkers
    /\ ActiveWorkers(allocations) <= capacity.total_workers
    /\ \A t1, t2 \in DOMAIN tasks :
          TwoConcurrentRequests(t1, t2) =>
             \/ /\ tasks[t1].result.status = "active"
                /\ tasks[t2].result.status = "failed"
                /\ tasks[t2].result.error = "Insufficient workers"
             \/ /\ tasks[t2].result.status = "active"
                /\ tasks[t1].result.status = "failed"
                /\ tasks[t1].result.error = "Insufficient workers"

\* while a request is between its admission check and its commit, no step
\* of another handler changes the manager
C3_CheckCommitAtomic ==
    \A t \in DOMAIN tasks :
        (tasks[t].op = "request_resources" /\ tasks[t].pc = "checked")
           => (mgr' # mgr => tasks'[t].pc = "done")

(* C3: on a pool of 10 workers, of two request_resources calls for 6        *)
(* workers issued concurrently exactly one ends Active and the other ends   *)
(* Failed for insufficient workers; the workers committed to Active         *)
(* allocations never exceed 10; and no other handler's step changes the     *)
(* manager between a request's admission check and its commit.              *)
C3_ConcurrentAdmission ==
    []C3_OneOfTwoAdmitted /\ [][C3_CheckCommitAtomic]_vars

\* two requests for 6 workers were in flight together and both have returned
C3_Witness ==
    \E t1, t2 \in DOMAIN tasks :
        /\ TwoConcurrentRequests(t1, t2)
        /\ t1 < t2
        /\ tasks[t2].result.status = "active"
        /\ tasks[t1].result.status = "failed"

\* the records that this step moves into Released
NewlyReleased ==
    {id \in DOMAIN allocations :
        allocations[id].state # "released" /\ allocations'[id].state = "released"}

ReleasedAmounts(ids, field) ==
    SeqSum([i \in DOMAIN allocations |->
               IF i \in ids
               THEN CASE field = "workers" -> Len(allocations[i].workers_allocated)
                      [] field = "cpu" -> allocations[i].cpu_allocated
                      [] field = "memory" -> allocations[i].memory_allocated
                      [] OTHER -> 1
               ELSE 0])

(* C5: when the sweep and explicit release_resources calls race on the same *)
(* allocation, in every interleaving the event loop produces, the ledger is *)
(* reversed and active_allocations decremented once per allocation: a step  *)
(* that does not store a new record changes the counters by exactly the     *)
(* amounts of the records it moves into Released, a Released record never   *)
(* changes again, and nothing but the sweep changes the manager between the *)
(* sweep's expiry test of a record and the sweep's own release call.        *)
C5_ReversedOnce ==
    [][/\ \A id \in DOMAIN allocations :
             allocations[id].state = "released"
                => allocations'[id] = allocations[id]
       /\ \A t \in DOMAIN tasks :
             (tasks[t].op = "cleanup_expired_allocations"
                /\ tasks[t].pc = "call_release")
                => (mgr' # mgr => tasks'[t].pc = "call_reclaim")
       /\ Len(allocations') = Len(allocations) =>
             /\ capacity'.allocated_workers =
                   capacity.allocated_workers
                     - ReleasedAmounts(NewlyReleased, "workers")
             /\ capacity'.allocated_cpu =
                   capacity.allocated_cpu - ReleasedAmounts(NewlyReleased, "cpu")
             /\ capacity'.allocated_memory =
                   capacity.allocated_memory
                     - ReleasedAmounts(NewlyReleased, "memory")
             /\ capacity'.active_allocations =
                   capacity.active_allocations
                     - ReleasedAmounts(NewlyReleased, "count")]_vars

\* an explicit release was issued before the sweep, the sweep ran first and
\* released the expired allocation, and the explicit release then found it
\* already released
C5_Witness ==
    \E s, r \in DOMAIN tasks :
        /\ r < s
        /\ tasks[s].op = "cleanup_expired_allocations"
        /\ tasks[s].pc = "done"
        /\ tasks[r].op = "release_resources"
        /\ tasks[r].pc = "done"
        /\ tasks[r].result.status = "already_released"
        /\ \E k \in DOMAIN tasks[s].result.ids :
              tasks[s].result.ids[k] = tasks[r].allocation_id
        /\ Len(allocations[tasks[r].allocation_id].workers_allocated) > 0
        /\ allocations[tasks[r].allocation_id].state = "released"

-----------------------------------------------------------------------------
ActiveCount(allocs) ==
    Cardinality({i \in DOMAIN allocs : allocs[i].state = "active"})

(* C11: in every reachable state capacity.active_allocations equals the    *)
(* number of registry records in state Active and is never negative, also  *)
(* for zero-worker allocations and after release_resources on records in   *)
(* any state, Failed ones included.                                         *)
C11_ActiveCountMatches ==
    /\ capacity.active_allocations = ActiveCount(allocations)
    /\ capacity.active_allocations >= 0

(* C12: Failed is terminal: once a record is in state Failed no operation, *)
(* neither a release_resources call on its id nor a sweep, changes its     *)
(* state again.                                                             *)
C12_FailedIsTerminal ==
    [][\A id \in DOMAIN allocations :
          allocations[id].state = "failed"
             => allocations'[id].state = "failed"]_vars

\* the states a record cannot leave for Pending or Active
PastActive == {"releasing", "released", "failed"}

C13_Transition(s, s2) ==
    /\ s \in PastActive => s2 \in PastActive
    /\ (s2 = "failed" /\ s # "failed") => s \in {"pending", "releasing"}
    /\ (s2 = "released" /\ s # "released") => s = "releasing"

(* C13: along every behaviour of the server, a record that has been        *)
(* Released or Failed never becomes Pending or Active again, Failed is     *)
(* entered only from Pending or Releasing, and Released is entered only    *)
(* from Releasing; a record enters the registry as the Pending record of   *)
(* its request turned Active or Failed.                                     *)
C13_LifecycleOrder ==
    [][/\ \A id \in DOMAIN allocations :
             C13_Transition(allocations[id].state, allocations'[id].state)
       /\ Len(allocations') > Len(allocations) =>
             /\ Len(allocations') = Len(allocations) + 1
             /\ C13_Transition("pending", allocations'[Len(allocations')].state)
             /\ allocations'[Len(allocations')].state \in {"active", "failed"}]_vars

\* a release has taken a record holding workers through Releasing to
\* Released while the registry also holds a Failed record
C13_Witness ==
    /\ \E r \in DOMAIN tasks :
          /\ tasks[r].op = "release_resources"
          /\ tasks[r].pc = "done"
          /\ tasks[r].result.status = "released"
          /\ tasks[r].result.workers > 0
          /\ allocations[tasks[r].allocation_id].state = "released"
    /\ \E i \in DOMAIN allocations : allocations[i].state = "failed"

(* C14: release_resources with an id that is not in the registry returns   *)
(* status 'error' and changes nothing: the ledger counters, every          *)
(* allocation record, the service registry and the port index are          *)
(* unchanged.                                                               *)
C14_UnknownIdChangesNothing ==
    [][\A id \in 1..(MaxAllocs + 1) :
          (ReleaseStep(id) /\ id \notin DOMAIN allocations)
             => (/\ last'.status = "error"
                 /\ last'.error = "not found"
                 /\ capacity' = capacity
                 /\ allocations' = allocations
                 /\ mcp_server_registry' = mcp_server_registry
                 /\ next_port_idx' = next_port_idx)]_vars

\* a release of an unknown id has just returned while the registry holds an
\* Active allocation with workers
C14_Witness ==
    /\ last.op = "release_resources"
    /\ last.status = "error"
    /\ last.allocation_id \notin DOMAIN allocations
    /\ \E i \in DOMAIN allocations :
          /\ allocations[i].state = "active"
          /\ Len(allocations[i].workers_allocated) > 0

-----------------------------------------------------------------------------
(* The service registry under many distinct service names: requests that   *)
(* name a batch of services never seen before and requests that name       *)
(* services already running, with releases in between.  The clock stands   *)
(* still here: a sweep reaches the registry only through release_resources.*)

ServiceName(k) == <<"svc", k>>

\* the names ServiceName(from + 1) .. ServiceName(from + n)
NewNames(from, n) == [i \in 1..n |-> ServiceName(from + i)]

BatchSizes == {PortPoolSize \div 5}

ServicesCreated == Cardinality(DOMAIN mcp_server_registry)

\* the service lists a caller may send now
PortServerLists ==
    {NewNames(ServicesCreated, n) : n \in BatchSizes}
      \cup (IF ServicesCreated = 0 THEN {}
            ELSE {<<ServiceName(ServicesCreated), ServiceName(1)>>})

InitPorts ==
    /\ InitManager({ClusterCapacity(DefaultTotalCpu, DefaultTotalMemory,
                                    DefaultTotalWorkers)})
    /\ now = 0
    /\ last = NoResult
    /\ tasks = <<>>
    /\ cluster = NoCluster
    /\ running = 0

RequestServices ==
    /\ Len(allocations) < MaxPortRequests
    /\ \E servers \in PortServerLists :
          Returns(request_resources(CurrentManager, "j1", servers, None,
                                    "normal", DefaultTtl, now))
    /\ UNCHANGED <<now, tasks, running, cluster>>

ReleaseAny ==
    /\ \E id \in DOMAIN allocations :
          Returns(release_resources(CurrentManager, id, now))
    /\ UNCHANGED <<now, tasks, running, cluster>>

PortsNext == RequestServices \/ ReleaseAny

SpecPorts == InitPorts /\ [][PortsNext]_vars

\* a granted allocation: it was activated (and possibly released since)
Granted(a) == a.activated_at # NoTime

\* the endpoints every granted record holds are the registry's endpoints
C15_RecordsAgreeWithRegistry ==
    \A i \in DOMAIN allocations :
        Granted(allocations[i]) =>
          /\ Len(allocations[i].mcp_server_specs)
                = Len(allocations[i].mcp_servers)
          /\ \A k \in DOMAIN allocations[i].mcp_server_specs :
                LET spec == allocations[i].mcp_server_specs[k]
                IN  /\ spec.server_name = allocations[i].mcp_servers[k]
                    /\ spec.server_name \in DOMAIN mcp_server_registry
                    /\ spec.endpoint
                          = mcp_server_registry[spec.server_name].endpoint

\* a running service keeps its registry entry
C15_EndpointNeverChanges ==
    \A n \in DOMAIN mcp_server_registry :
        /\ n \in DOMAIN mcp_server_registry'
        /\ mcp_server_registry'[n] = mcp_server_registry[n]

(* C15: any two granted allocations that request the same service name     *)
(* hold the identical endpoint for it, whatever requests and releases       *)
(* happen in between: each granted record holds, for every name it asked    *)
(* for, the endpoint the registry has for that name, and the registry       *)
(* entry of a running service never changes.                                *)
C15_SameNameSameEndpoint ==
    []C15_RecordsAgreeWithRegistry /\ [][C15_EndpointNeverChanges]_vars

\* two granted allocations share the first service; between them another
\* request created new services and was released
C15_Witness ==
    \E i, j \in DOMAIN allocations :
        /\ j > i + 1
        /\ Granted(allocations[i]) /\ Granted(allocations[j])
        /\ allocations[i].mcp_servers[1] = ServiceName(1)
        /\ \E k \in DOMAIN allocations[j].mcp_servers :
              allocations[j].mcp_servers[k] = ServiceName(1)
        /\ allocations[i + 1].mcp_servers[1] # ServiceName(1)
        /\ Len(allocations[i + 1].mcp_servers) > 2
        /\ allocations[i + 1].state = "released"

PortsInUse == {mcp_server_registry[n].port : n \in DOMAIN mcp_server_registry}

(* C16 as stated: in every reachable state no two different service names  *)
(* in the service registry share a port, for any number of distinct names  *)
(* requested over time.                                                     *)
C16_DistinctPortsAlways ==
    Cardinality(PortsInUse) = ServicesCreated

(* C16 amended: as long as no more services have been created than the     *)
(* port pool has entries (100), no two different service names in the      *)
(* service registry share a port.                                           *)
C16_DistinctPortsWithinPool ==
    ServicesCreated <= PortPoolSize => Cardinality(PortsInUse) = ServicesCreated

\* the pool is exactly used up: as many services as pool entries
C16_Witness ==
    /\ ServicesCreated = PortPoolSize
    /\ last.op = "request_resources"
    /\ last.status = "active"
    /\ mcp_server_registry[ServiceName(PortPoolSize)].port
          = PortBase + PortPoolSize - 1

-----------------------------------------------------------------------------
(* Expiry read through get_allocation, on a clock that advances second by  *)
(* second so that the instant now = activated_at + ttl_seconds is reached. *)

ExpiryTtlInputs == {1, 2}
ExpiryWorkerInputs == {{1}, {2}}

InitExpiry ==
    /\ InitManager({ClusterCapacity(4, 4 * WorkerMemory, 1)})
    /\ now = 0
    /\ last = NoResult
    /\ tasks = <<>>
    /\ cluster = NoCluster
    /\ running = 0

RequestWithTtl ==
    /\ Len(allocations) < MaxExpiryAllocs
    /\ \E workers \in ExpiryWorkerInputs, ttl \in ExpiryTtlInputs :
          Returns(request_resources(CurrentManager, "j1", <<"fs">>, workers,
                                    "normal", ttl, now))
    /\ UNCHANGED <<now, tasks, running, cluster>>

GetAllocation ==
    /\ \E id \in 1..(MaxExpiryAllocs + 1) :
          last' = get_allocation(CurrentManager, id, now)
    /\ UNCHANGED <<mgr, now, tasks, running, cluster>>

ClockTick ==
    /\ now < MaxClock
    /\ now' = now + 1
    /\ UNCHANGED <<mgr, last, tasks, running, cluster>>

ExpiryNext == RequestWithTtl \/ ReleaseAny \/ GetAllocation \/ ClockTick

SpecExpiry == InitExpiry /\ [][ExpiryNext]_vars

\* this step is a get_allocation call on a stored record
GetStep ==
    /\ last'.op = "get_allocation"
    /\ last'.found
    /\ mgr' = mgr /\ now' = now

(* C17: is_expired of a record, as get_allocation reports it, is false     *)
(* whenever the record is Released or Failed, and otherwise true exactly   *)
(* when now > (activated_at if set, else created_at) + ttl_seconds; so an  *)
(* Active allocation is not expired at the instant of its grant and is     *)
(* expired once more than ttl_seconds have elapsed since its activation.   *)
C17_ExpiredIff ==
    [][GetStep =>
         LET a == allocations[last'.allocation_id]
             ref == IF a.activated_at # NoTime
                    THEN a.activated_at ELSE a.created_at
         IN  /\ last'.status = a.state
             /\ a.state \in {"released", "failed"} => ~last'.is_expired
             /\ a.state \notin {"released", "failed"} =>
                   (last'.is_expired <=> now > ref + a.ttl_seconds)
             /\ (a.state = "active" /\ now = a.activated_at)
                   => ~last'.is_expired
             /\ (a.state = "active" /\ now - a.activated_at > a.ttl_seconds)
                   => last'.is_expired]_vars

\* get_allocation has just reported an Active allocation with ttl 2 as not
\* expired exactly 2 seconds after its grant
C17_Witness ==
    /\ last.op = "get_allocation"
    /\ last.found
    /\ last.status = "active"
    /\ ~last.is_expired
    /\ allocations[last.allocation_id].state = "active"
    /\ allocations[last.allocation_id].ttl_seconds = 2
    /\ now = allocations[last.allocation_id].activated_at + 2

-----------------------------------------------------------------------------
\* this step is a cleanup_expired_allocations call
SweepStep ==
    /\ last'.op = "cleanup_expired_allocations"
    /\ now' = now
    /\ Len(allocations') = Len(allocations)

\* the records a sweep at this instant must release
Due == {id \in DOMAIN allocations :
           allocations[id].state = "active" /\ is_expired(allocations[id], now)}

SeqToSet(s) == {s[k] : k \in DOMAIN s}

(* C18: cleanup_expired_allocations releases every record that is both     *)
(* Active and expired and leaves every other record unchanged, and the     *)
(* list it returns holds exactly the ids this sweep released, each once    *)
(* and each in state Released when the sweep returns.                       *)
C18_SweepReleasesExactlyDue ==
    [][SweepStep =>
         /\ \A id \in Due :
               /\ allocations'[id].state = "released"
               /\ allocations'[id].released_at = now
         /\ \A id \in DOMAIN allocations \ Due :
               allocations'[id] = allocations[id]
         /\ SeqToSet(last'.ids) = NewlyReleased
         /\ SeqToSet(last'.ids) = Due
         /\ Len(last'.ids) = Cardinality(Due)
         /\ capacity'.allocated_workers =
               capacity.allocated_workers - ReleasedAmounts(Due, "workers")
         /\ capacity'.active_allocations =
               capacity.active_allocations - Cardinality(Due)]_vars

\* a sweep has just released an expired allocation that held workers and
\* left alone an Active allocation that is not expired yet
C18_Witness ==
    /\ last.op = "cleanup_expired_allocations"
    /\ Len(last.ids) = 1
    /\ allocations[last.ids[1]].state = "released"
    /\ allocations[last.ids[1]].released_at = now
    /\ Len(allocations[last.ids[1]].workers_allocated) > 0
    /\ \E j \in DOMAIN allocations :
          /\ allocations[j].state = "active"
          /\ ~is_expired(allocations[j], now)

-----------------------------------------------------------------------------
(* The manager under the periodic sweep: time keeps advancing and          *)
(* _periodic_cleanup keeps calling cleanup_expired_allocations.  Requests  *)
(* are issued only while the modelled clock can still run past their       *)
(* expiry, so that the end of the clock is not mistaken for a leak.        *)

InitLive ==
    /\ InitManager({ClusterCapacity(3, 4 * WorkerMemory, 4)})
    /\ now = 0
    /\ last = NoResult
    /\ tasks = <<>>
    /\ cluster = NoCluster
    /\ running = 0

LiveWorkerInputs == {{1}, {2}}

RequestBeforeHorizon ==
    /\ \A ttl \in TtlInputs : now + ttl < MaxTicks * TickSeconds
    /\ RequestFrom(JobIds, ServerLists, LiveWorkerInputs, PriorityInputs,
                   TtlInputs)

LiveNext == RequestBeforeHorizon \/ Release \/ Cleanup \/ Tick

SpecLive ==
    InitLive /\ [][LiveNext]_vars /\ WF_vars(Tick) /\ WF_vars(Cleanup)

IsActive(id) ==
    id \in DOMAIN allocations /\ allocations[id].state = "active"

\* the record is Released and the ledger holds no amount of it any more
ReleasedAndReturned(id) ==
    /\ id \in DOMAIN allocations
    /\ allocations[id].state = "released"
    /\ C2_LedgerEqualsCommitted

(* C19: with time advancing and the periodic sweep running (weak fairness  *)
(* of both), every allocation that becomes Active eventually reaches       *)
(* Released, by explicit release or by expiry, and the resources it        *)
(* committed are then back in the ledger.                                   *)
C19_NoLeak ==
    \A id \in 1..MaxAllocs : IsActive(id) ~> ReleasedAndReturned(id)

\* one sweep has just released two expired allocations and every counter of
\* the ledger is back to zero
C19_Witness ==
    /\ last.op = "cleanup_expired_allocations"
    /\ Len(last.ids) = 2
    /\ \A k \in DOMAIN last.ids : allocations[last.ids[k]].state = "released"
    /\ \E k \in DOMAIN last.ids :
          Len(allocations[last.ids[k]].workers_allocated) > 0
    /\ Counters(capacity) = <<0, 0, 0, 0>>

-----------------------------------------------------------------------------
(* release_resources when a statement of its try block (lines 383-412)     *)
(* raises: the except clause (lines 414-420) marks the record Failed and   *)
(* returns an error; what the statements before the raising one did stays  *)
(* done.  No statement of the block raises on records the manager builds   *)
(* itself, so the raising line is an input of this specification only.     *)

\* the lines of the try block at which the exception is raised
FaultLines == {385, 388, 389, 392, 393, 400, 403}

\* which time the line runs when it raises: the lines of the loop (392-393)
\* run once per worker, line 392 once more to end the loop
FaultRuns == 1..3

\* lines 387-389 run only for a record with workers, line 393 once per
\* worker, line 392 once more than that, every other line once
CanRaiseAt(a, at, nth) ==
    CASE at \in {387, 388, 389} -> Len(a.workers_allocated) > 0 /\ nth = 1
      [] at = 392 -> nth <= Len(a.workers_allocated) + 1
      [] at = 393 -> nth <= Len(a.workers_allocated)
      [] OTHER -> nth = 1

\* lines 392-393: the workers before position k are marked
destroy_workers_before(ws, k) ==
    [j \in DOMAIN ws |->
        IF j < k THEN [ws[j] EXCEPT !.status = "destroying"] ELSE ws[j]]

\* lines 385-401 up to the raising line, in its nth run, then lines 415-420
reclaim_raising(m, id, t, at, nth) ==
    LET a == m.allocations[id]
        workers_released == Len(a.workers_allocated)
        c0 == m.capacity
        c1 == IF at > 387 /\ workers_released > 0
              THEN [c0 EXCEPT !.allocated_workers = @ - workers_released]
              ELSE c0
        c2 == IF at > 388 /\ workers_released > 0
              THEN [c1 EXCEPT !.allocated_cpu = @ - a.cpu_allocated]
              ELSE c1
        c3 == IF at > 389 /\ workers_released > 0
              THEN [c2 EXCEPT !.allocated_memory = @ - a.memory_allocated]
              ELSE c2
        c4 == IF at > 401
              THEN [c3 EXCEPT !.active_allocations = @ - 1]
              ELSE c3
        a1 == IF at > 393
              THEN [a EXCEPT !.workers_allocated = destroy_workers(@)]
              ELSE IF at \in {392, 393}
              THEN [a EXCEPT !.workers_allocated = destroy_workers_before(@, nth)]
              ELSE a
        a2 == IF at > 400 THEN [a1 EXCEPT !.released_at = t] ELSE a1
        a3 == [a2 EXCEPT !.state = "failed", !.error = "release_error"]
    IN  [m |-> [m EXCEPT !.capacity = c4, !.allocations[id] = a3],
         result |-> Result("release_resources", id, "error", "release_error",
                           0, 0, 0, <<>>)]

release_resources_raising(m, id, t, at, nth) ==
    IF id \notin DOMAIN m.allocations \/ already_released(m.allocations[id])
    THEN release_resources(m, id, t)
    ELSE reclaim_raising(mark_releasing(m, id), id, t, at, nth)

FaultWorkerInputs == {{0}, {2}}

InitFault ==
    /\ InitManager({ClusterCapacity(4, 4 * WorkerMemory, 4)})
    /\ now = 0
    /\ last = NoResult
    /\ tasks = <<>>
    /\ cluster = NoCluster
    /\ running = 0

RequestForFault ==
    RequestFrom(JobIds, ServerLists, FaultWorkerInputs, PriorityInputs,
                TtlInputs)

\* how far below zero allocated_workers and active_allocations may be
\* driven by releases that raise again on a record already Failed
MaxDeficit == 2

\* a release raises.  The gate of lines 365-378 stops only an unknown id
\* and a Released or Releasing record, so the try block runs, and may
\* raise, for an Active record and again and again for a Failed one (one
\* refused or one whose earlier release raised), each run subtracting
\* whatever its lines before the raising one subtract.  Runs on a Failed
\* record are followed while the two counters stay within MaxDeficit
ReleaseRaising ==
    /\ \E id \in DOMAIN allocations, at \in FaultLines, nth \in FaultRuns :
          /\ ~already_released(allocations[id])
          /\ CanRaiseAt(allocations[id], at, nth)
          /\ Returns(release_resources_raising(CurrentManager, id, now, at, nth))
          /\ \/ allocations[id].state = "active"
             \/ /\ capacity'.allocated_workers >= -MaxDeficit
                /\ capacity'.active_allocations >= -MaxDeficit
    /\ UNCHANGED <<now, tasks, running, cluster>>

FaultNext == RequestForFault \/ Release \/ ReleaseRaising \/ Cleanup \/ Tick

SpecFault == InitFault /\ [][FaultNext]_vars

\* this step is a release_resources(id) call that returned an internal error
FailedReleaseStep(id) ==
    /\ ReleaseStep(id)
    /\ last'.status = "error"
    /\ id \in DOMAIN allocations

\* the call ended with the record Failed and the three counters either all
\* untouched or all reduced by the record's amounts
C20_AllOrNothing ==
    \A id \in DOMAIN allocations :
        FailedReleaseStep(id) =>
          LET a == allocations[id]
              dw == capacity.allocated_workers - capacity'.allocated_workers
              dc == capacity.allocated_cpu - capacity'.allocated_cpu
              dm == capacity.allocated_memory - capacity'.allocated_memory
          IN  /\ allocations'[id].state = "failed"
              /\ \/ dw = 0 /\ dc = 0 /\ dm = 0
                 \/ /\ dw = Len(a.workers_allocated)
                    /\ dc = a.cpu_allocated
                    /\ dm = a.memory_allocated

\* nothing was subtracted twice: the counters still cover what the Active
\* records hold and are not negative
C20_AtMostOnce ==
    /\ capacity.allocated_workers >= ActiveWorkers(allocations)
    /\ capacity.allocated_cpu >= 0
    /\ capacity.allocated_memory >= 0

(* C20: if an internal error occurs during the reclaim of a release, the   *)
(* record ends Failed and the call returns 'error', the ledger reversal of *)
(* that allocation is all-or-nothing (never only some of allocated_workers,*)
(* allocated_cpu, allocated_memory decremented), and no later release or   *)
(* sweep subtracts the allocation's amounts a second time.                  *)
C20_ReclaimFailureAtomicOnce ==
    [][C20_AllOrNothing]_vars /\ []C20_AtMostOnce

-----------------------------------------------------------------------------
(* Requests with every priority string a caller may send: the four values  *)
(* of the enumeration and strings outside it.                               *)

InvalidPriorities == {"urgent", "NORMAL", ""}
PriorityStrings == Priorities \cup InvalidPriorities
PriorityWorkerInputs == {{0}, {3}}

InitPriority ==
    /\ InitManager({ClusterCapacity(4, 4 * WorkerMemory, 4)})
    /\ now = 0
    /\ last = NoResult
    /\ tasks = <<>>
    /\ cluster = NoCluster
    /\ running = 0

RequestValidPriority ==
    /\ Len(allocations) < MaxAllocs
    /\ RequestFrom(JobIds, ServerLists, PriorityWorkerInputs, Priorities,
                   TtlInputs)

RequestInvalidPriority ==
    /\ Len(allocations) < MaxAllocs
    /\ RequestFrom(JobIds, ServerLists, PriorityWorkerInputs,
                   InvalidPriorities, TtlInputs)

PriorityNext == RequestValidPriority \/ RequestInvalidPriority \/ Release

SpecPriority == InitPriority /\ [][PriorityNext]_vars

(* C24: a priority string outside low/normal/high/critical is not an       *)
(* error: in every reachable state the request is processed exactly as the *)
(* same request with priority 'normal' (same returned result, same manager *)
(* state, record stored with priority normal), while each of the four      *)
(* valid values is stored unchanged and does not alter the admission.       *)
C24_InvalidPriorityIsNormal ==
    \A workers \in PriorityWorkerInputs, p \in PriorityStrings :
        LET r == request_resources(CurrentManager, "j1", <<"fs">>, workers,
                                   p, 1, now)
            n == request_resources(CurrentManager, "j1", <<"fs">>, workers,
                                   "normal", 1, now)
            rec == r.m.allocations[r.result.allocation_id]
        IN  /\ r.result.status \in {"active", "failed"}
            /\ r.result.status = n.result.status
            /\ p \notin Priorities => (r = n /\ rec.priority = "normal")
            /\ p \in Priorities => rec.priority = p

\* the registry holds a granted record with a non-default priority and a
\* refused record with priority normal, and a request has just returned
C24_Witness ==
    /\ last.op = "request_resources"
    /\ \E i, j \in DOMAIN allocations :
          /\ allocations[i].priority = "critical"
          /\ allocations[i].state = "active"
          /\ allocations[j].priority = "normal"
          /\ allocations[j].state = "failed"

-----------------------------------------------------------------------------
(* The read operations: get_capacity, get_allocation, list_allocations and  *)
(* _check_capacity, called between requests, releases and sweeps            *)

\* ClusterCapacity.to_dict, returned by get_capacity
get_capacity(m) ==
    LET c == m.capacity
    IN  [op |-> "get_capacity",
         total_cpu |-> c.total_cpu, total_memory |-> c.total_memory,
         total_workers |-> c.total_workers,
         allocated_cpu |-> c.allocated_cpu,
         allocated_memory |-> c.allocated_memory,
         allocated_workers |-> c.allocated_workers,
         available_cpu |-> available_cpu(c),
         available_memory |-> available_memory(c),
         available_workers |-> available_workers(c),
         running_mcp_servers |-> c.running_mcp_servers,
         active_allocations |-> c.active_allocations]

\* Python's truth value of an Optional[str] argument, None or {s}: None and
\* the empty string are false
Truthy(x) == x # None /\ x # {""}

\* one entry of the list that list_allocations returns
AllocationSummary(id, a, t) ==
    [allocation_id |-> id, job_id |-> a.job_id, state |-> a.state,
     priority |-> a.priority, workers |-> Len(a.workers_allocated),
     age_seconds |-> t - a.created_at, is_expired |-> is_expired(a, t)]

\* a list_allocations that keeps the records matching either filter
list_allocations_either(m, state, job_id, t) ==
    LET allocs == m.allocations
        kept(id) == IF Truthy(state) /\ Truthy(job_id)
                    THEN allocs[id].state \in state \/ allocs[id].job_id \in job_id
                    ELSE /\ ~(Truthy(state) /\ allocs[id].state \notin state)
                         /\ ~(Truthy(job_id) /\ allocs[id].job_id \notin job_id)
        ids == SelectSeq([i \in 1..Len(allocs) |-> i], kept)
    IN  [k \in 1..Len(ids) |-> AllocationSummary(ids[k], allocs[ids[k]], t)]

\* list_allocations: the registry in insertion order, skipping a record when
\* a filter is truthy and differs from the record's field
list_allocations(m, state, job_id, t) ==
    LET allocs == m.allocations
        kept(id) == /\ ~(Truthy(state) /\ allocs[id].state \notin state)
                    /\ ~(Truthy(job_id) /\ allocs[id].job_id \notin job_id)
        ids == SelectSeq([i \in 1..Len(allocs) |-> i], kept)
    IN  [k \in 1..Len(ids) |-> AllocationSummary(ids[k], allocs[ids[k]], t)]

\* a read that brings active_allocations up to date before it answers
read_refreshing(m, result) ==
    [m |-> [m EXCEPT !.capacity.active_allocations = ActiveCount(m.allocations)],
     result |-> result]

\* a read method: it returns its answer and assigns no field of the manager
read(m, result) == [m |-> m, result |-> result]

ReadJobIds == {"j1", "j2"}
ReadWorkerInputs == {{3}}
StateFilters == {None} \cup {{s} : s \in {"", "active", "released", "failed"}}
JobFilters == {None} \cup {{j} : j \in {""} \cup ReadJobIds}
\* the calls of list_allocations that the clients make: no filter, each
\* filter alone, both, and empty strings
ListCalls ==
    { <<None, None>>, <<{"released"}, None>>, <<None, {"j2"}>>,
      <<{"failed"}, {"j1"}>>, <<{""}, {""}>> }
CheckCounts == {0, 2, 5}
ReadOps == {"get_capacity", "get_allocation", "list_allocations",
            "check_capacity"}

InitReads ==
    /\ InitManager({ClusterCapacity(4, 4 * WorkerMemory, 4)})
    /\ now = 0
    /\ last = NoResult
    /\ tasks = <<>>
    /\ cluster = NoCluster
    /\ running = 0

RequestForJobs ==
    /\ Len(allocations) < MaxAllocs
    /\ RequestFrom(ReadJobIds, ServerLists, ReadWorkerInputs, PriorityInputs,
                   TtlInputs)

GetCapacity ==
    /\ Returns(read(CurrentManager, get_capacity(CurrentManager)))
    /\ UNCHANGED <<now, tasks, running, cluster>>

GetAllocationById ==
    /\ \E id \in 1..(MaxAllocs + 1) :
          Returns(read(CurrentManager, get_allocation(CurrentManager, id, now)))
    /\ UNCHANGED <<now, tasks, running, cluster>>

ListAllocations ==
    /\ \E call \in ListCalls :
          Returns(read(CurrentManager,
                       [op |-> "list_allocations", state |-> call[1],
                        job_id |-> call[2],
                        allocations |-> list_allocations(CurrentManager, call[1],
                                                         call[2], now)]))
    /\ UNCHANGED <<now, tasks, running, cluster>>

CheckCapacity ==
    /\ \E workers_count \in CheckCounts :
          Returns(read(CurrentManager,
                       [op |-> "check_capacity",
                        workers_count |-> workers_count,
                        answer |-> check_capacity(capacity, workers_count)]))
    /\ UNCHANGED <<now, tasks, running, cluster>>

ReadsNext ==
    \/ RequestForJobs \/ Release \/ Cleanup \/ Tick
    \/ GetCapacity \/ GetAllocationById \/ ListAllocations \/ CheckCapacity

SpecReads == InitReads /\ [][ReadsNext]_vars

\* C25: get_capacity, get_allocation, list_allocations and _check_capacity
\* leave the whole manager state unchanged (ledger counters, every record,
\* service registry, port index), for known and unknown ids and however often
\* they are called, and get_allocation on an unknown id returns not-found.
C25_ReadsChangeNothing ==
    [][ last'.op \in ReadOps =>
          /\ mgr' = mgr
          /\ last'.op = "get_allocation" =>
                (last'.found <=> last'.allocation_id \in DOMAIN allocations)
          /\ last'.op = "get_capacity" => last' = get_capacity(CurrentManager)
      ]_vars

\* an unknown id was looked up, after a read of another kind, on a manager
\* that holds a grant and whose active count has drifted from the registry
C25_Witness ==
    /\ last.op = "get_allocation"
    /\ ~last.found
    /\ capacity.allocated_workers > 0
    /\ capacity.active_allocations # ActiveCount(allocations)

\* a filter is supplied when the argument is a non-empty string: the code
\* tests the argument's truth value, so None and "" both mean no filter
Supplied(f) == f # None /\ f # {""}

Matches(a, state, job_id) ==
    /\ Supplied(state) => a.state \in state
    /\ Supplied(job_id) => a.job_id \in job_id

\* C26: list_allocations(state, job_id) returns exactly one summary for each
\* registry record that matches every supplied filter (state equal to the
\* state filter and job_id equal to the job filter), all records when no
\* filter is supplied, and Failed and Released records when they match.
C26_ListIsExactlyTheMatches ==
    \A state \in StateFilters, job_id \in JobFilters :
        LET r == list_allocations(CurrentManager, state, job_id, now)
            ids == {r[k].allocation_id : k \in 1..Len(r)}
        IN  /\ ids = {id \in DOMAIN allocations :
                        Matches(allocations[id], state, job_id)}
            /\ Len(r) = Cardinality(ids)
            /\ \A k \in 1..Len(r) :
                  /\ r[k].state = allocations[r[k].allocation_id].state
                  /\ r[k].job_id = allocations[r[k].allocation_id].job_id
                  /\ r[k].workers =
                        Len(allocations[r[k].allocation_id].workers_allocated)
            /\ ~Supplied(state) /\ ~Supplied(job_id) =>
                  Len(r) = Len(allocations)

\* both filters were supplied and the list holds the one Failed record of
\* job j1 out of a registry of two records; a Released record is listed too
C26_Witness ==
    /\ last.op = "list_allocations"
    /\ last.state = {"failed"} /\ last.job_id = {"j1"}
    /\ Len(allocations) = 2
    /\ Len(last.allocations) = 1
    /\ last.allocations[1].state = "failed"
    /\ last.allocations = list_allocations(CurrentManager, {"failed"}, {"j1"}, now)
    /\ Len(list_allocations(CurrentManager, {"released"}, None, now)) = 1

-----------------------------------------------------------------------------
(* The registry keeps every record *)

\* this step is a request_resources call: it returned a new result
RequestCall == last'.op = "request_resources" /\ last' # last

\* C27: the registry never evicts a record: every request_resources call,
\* granted or failed, adds exactly one new record under a fresh id without
\* overwriting an existing one, and an allocation id that is in the registry
\* stays there through every later request, release and sweep.
C27_RegistryNeverEvicts ==
    [][ /\ \A id \in DOMAIN allocations :
              /\ id \in DOMAIN allocations'
              /\ allocations'[id].allocation_id = allocations[id].allocation_id
              /\ allocations'[id].job_id = allocations[id].job_id
              /\ allocations'[id].created_at = allocations[id].created_at
        /\ RequestCall =>
              /\ Len(allocations') = Len(allocations) + 1
              /\ last'.status \in {"active", "failed"}
              /\ last'.allocation_id \notin DOMAIN allocations
              /\ last'.allocation_id \in DOMAIN allocations'
              /\ allocations'[last'.allocation_id].allocation_id
                    = last'.allocation_id
        /\ ~RequestCall => DOMAIN allocations' = DOMAIN allocations
      ]_vars

\* a granted and a refused request were stored, and after a sweep released
\* the grant both records are still in the registry
C27_Witness ==
    /\ last.op = "cleanup_expired_allocations"
    /\ Len(allocations) = 2
    /\ \E i, j \in DOMAIN allocations :
          /\ allocations[i].state = "released"
          /\ allocations[j].state = "failed"

-----------------------------------------------------------------------------
(* Releases keep the services *)

\* this step is a release_resources or cleanup_expired_allocations call
ReleaseOrSweepStep ==
    /\ last'.op \in {"release_resources", "cleanup_expired_allocations"}
    /\ now' = now

\* the service instances that the records reference
GrantedSpecs(allocs) == [id \in DOMAIN allocs |-> allocs[id].mcp_server_specs]

\* C28: release_resources never releases service instances: after any
\* release or sweep the service registry, every service's endpoint and
\* status, the running-service list and the port allocator index are what
\* they were before.
C28_ReleaseKeepsServices ==
    [][ ReleaseOrSweepStep =>
          /\ mcp_server_registry' = mcp_server_registry
          /\ capacity'.running_mcp_servers = capacity.running_mcp_servers
          /\ next_port_idx' = next_port_idx
          /\ GrantedSpecs(allocations') = GrantedSpecs(allocations)
      ]_vars

\* every grant was released, by a caller or by the sweep, and the service
\* it was granted is still registered and running on its port
C28_Witness ==
    /\ last.op \in {"release_resources", "cleanup_expired_allocations"}
    /\ capacity.active_allocations = 0
    /\ \E id \in DOMAIN allocations :
          /\ allocations[id].state = "released"
          /\ \E k \in DOMAIN allocations[id].mcp_server_specs :
                LET s == allocations[id].mcp_server_specs[k]
                IN  /\ s.server_name \in DOMAIN mcp_server_registry
                    /\ mcp_server_registry[s.server_name].status = "running"
                    /\ \E i \in 1..Len(capacity.running_mcp_servers) :
                          capacity.running_mcp_servers[i] = s.server_name
    /\ next_port_idx > 0

-----------------------------------------------------------------------------
(* Worker descriptors: allocations of up to eleven workers for two jobs *)

LargeWorkerInputs == {{1}, {2}, {11}}
WorkerCounts == 0..12

InitWorkers ==
    /\ InitManager({ClusterCapacity(DefaultTotalCpu, DefaultTotalMemory, 13)})
    /\ now = 0
    /\ last = NoResult
    /\ tasks = <<>>
    /\ cluster = NoCluster
    /\ running = 0

RequestWorkers ==
    /\ Len(allocations) < MaxAllocs
    /\ RequestFrom(ReadJobIds, ServerLists, LargeWorkerInputs, PriorityInputs,
                   TtlInputs)

WorkersNext == RequestWorkers \/ Release

SpecWorkers == InitWorkers /\ [][WorkersNext]_vars

PairwiseDistinct(ws) ==
    \A k1, k2 \in DOMAIN ws :
        k1 # k2 => /\ ws[k1].worker_id # ws[k2].worker_id
                   /\ ws[k1].endpoint # ws[k2].endpoint

\* C29: within one granted allocation the worker descriptors have pairwise
\* distinct worker_ids and pairwise distinct endpoints, for every worker count.
C29_WorkersDistinctWithinAllocation ==
    /\ \A id \in DOMAIN allocations :
          Granted(allocations[id]) =>
              /\ PairwiseDistinct(allocations[id].workers_allocated)
              /\ WorkersRequested(allocations[id].workers_requested) =>
                    Len(allocations[id].workers_allocated)
                        = WorkerCount(allocations[id].workers_requested)
    /\ \A count \in WorkerCounts, job_id \in ReadJobIds :
          PairwiseDistinct(provision_workers(count, job_id, Len(allocations)))

\* a grant of eleven workers, more than the ten endpoints that lie between
\* one allocation's port base and the next
C29_Witness ==
    \E id \in DOMAIN allocations :
        /\ allocations[id].state = "active"
        /\ Len(allocations[id].workers_allocated) = 11
        /\ last.op = "request_resources"

\* C30: worker ids identify one worker of one allocation: in every reachable
\* state no two worker descriptors that belong to different allocations have
\* the same worker_id, also when both allocations were requested with the
\* same job_id.
C30_WorkerIdsUniqueAcrossAllocations ==
    \A i, j \in DOMAIN allocations :
        i # j =>
            \A k1 \in DOMAIN allocations[i].workers_allocated,
               k2 \in DOMAIN allocations[j].workers_allocated :
                allocations[i].workers_allocated[k1].worker_id
                    # allocations[j].workers_allocated[k2].worker_id

-----------------------------------------------------------------------------
(* Sweeps whose release_resources call raises inside the try block *)

\* cleanup_expired_allocations in which the release of every selected record
\* raises at line `at` in its nth run (when the line runs that often for the
\* record)
RECURSIVE cleanup_from_raising(_, _, _, _, _, _, _)
cleanup_from_raising(m, i, n, expired, t, at, nth) ==
    IF i > n THEN [m |-> m, expired |-> expired]
    ELSE IF sweep_selects(m.allocations[i], t)
    THEN LET r == IF CanRaiseAt(m.allocations[i], at, nth)
                  THEN release_resources_raising(m, i, t, at, nth)
                  ELSE release_resources(m, i, t)
         IN  cleanup_from_raising(r.m, i + 1, n, Append(expired, i), t, at, nth)
    ELSE cleanup_from_raising(m, i + 1, n, expired, t, at, nth)

cleanup_expired_allocations_raising(m, t, at, nth) ==
    LET r == cleanup_from_raising(m, 1, Len(m.allocations), <<>>, t, at, nth)
    IN  [m |-> r.m,
         result |-> Result("cleanup_expired_allocations", 0, "ok", "none",
                           0, 0, 0, r.expired)]

CleanupRaising ==
    /\ \E at \in FaultLines, nth \in FaultRuns :
          Returns(cleanup_expired_allocations_raising(CurrentManager, now, at, nth))
    /\ UNCHANGED <<now, tasks, running, cluster>>

SweepFaultNext ==
    RequestForFault \/ Release \/ CleanupRaising \/ Cleanup \/ Tick

SpecSweepFault == InitFault /\ [][SweepFaultNext]_vars

\* the release that a sweep performed for this record failed
SweepReleaseFailed(id) ==
    /\ allocations[id].state = "failed"
    /\ allocations[id].error = "release_error"

\* C21 as stated: when the release performed by a sweep for an expired
\* allocation failed, a later sweep cycle attempts to release that allocation
\* again: every sweep that runs while the record is in that condition has
\* the record's id among the ids it released.
C21_LaterSweepRetries ==
    [][SweepStep =>
         \A id \in DOMAIN allocations :
             SweepReleaseFailed(id) => id \in SeqToSet(last'.ids)]_vars

\* C21, amended: when the release performed by a sweep for an expired
\* allocation fails, the allocation becomes Failed and no later sweep cycle
\* attempts to release it again: a Failed allocation is not expired and is
\* not eligible for the sweep.
C21_FailedSweepReleaseIsFinal ==
    /\ [][SweepStep =>
            /\ \A id \in Due :
                  /\ allocations'[id].state \in {"released", "failed"}
                  /\ id \in SeqToSet(last'.ids)
            /\ \A id \in DOMAIN allocations :
                  SweepReleaseFailed(id) =>
                      /\ id \notin SeqToSet(last'.ids)
                      /\ allocations'[id] = allocations[id]]_vars
    /\ [](\A id \in DOMAIN allocations :
              SweepReleaseFailed(id) =>
                  /\ ~is_expired(allocations[id], now)
                  /\ ~sweep_selects(allocations[id], now))

\* a sweep's release of an expired allocation failed, and a later sweep ran
\* past the record's ttl_seconds and released nothing
C21_Witness ==
    /\ last.op = "cleanup_expired_allocations"
    /\ last.ids = <<>>
    /\ \E id \in DOMAIN allocations :
          /\ SweepReleaseFailed(id)
          /\ now > allocations[id].activated_at + allocations[id].ttl_seconds
          /\ Len(allocations[id].workers_allocated) > 0

-----------------------------------------------------------------------------
(* Queries among requests and releases on the server.  The mutating methods *)
(* are split inside their ledger updates, between the first counter they    *)
(* write and the rest, so that a query scheduled there would see a partial  *)
(* update.                                                                  *)

\* request_resources, lines 290-303: services, workers, allocated_workers
request_reserve(m, alloc) ==
    LET c0 == m.capacity
        s == start_all(m.mcp_server_registry, c0.running_mcp_servers,
                       m.next_port_idx, alloc.mcp_servers, <<>>)
        c1 == [c0 EXCEPT !.running_mcp_servers = s.runlist]
        wanted == WorkersRequested(alloc.workers_requested)
        w == IF wanted THEN WorkerCount(alloc.workers_requested) ELSE 0
        a1 == [alloc EXCEPT !.mcp_server_specs = s.specs]
        a2 == IF wanted
              THEN [a1 EXCEPT
                      !.workers_allocated =
                          provision_workers(w, alloc.job_id, Len(m.allocations)),
                      !.cpu_allocated = w * WorkerCpu,
                      !.memory_allocated = w * WorkerMemory]
              ELSE a1
        c2 == IF wanted THEN [c1 EXCEPT !.allocated_workers = @ + w] ELSE c1
    IN  [m |-> Manager(c2, m.allocations, s.reg, s.idx), alloc |-> a2]

\* request_resources, lines 304-343: allocated_cpu, allocated_memory,
\* activation, active_allocations, the store of the record
request_finish(m, alloc, t) ==
    LET wanted == WorkersRequested(alloc.workers_requested)
        c1 == IF wanted
              THEN [m.capacity EXCEPT
                      !.allocated_cpu = @ + alloc.cpu_allocated,
                      !.allocated_memory = @ + alloc.memory_allocated]
              ELSE m.capacity
        a1 == [alloc EXCEPT !.state = "active", !.activated_at = t]
        c2 == [c1 EXCEPT !.active_allocations = @ + 1]
    IN  [m |-> [m EXCEPT !.capacity = c2,
                         !.allocations = StoreAllocation(m.allocations, a1)],
         result |-> Result("request_resources", alloc.allocation_id, "active",
                           "none", Len(a1.workers_allocated),
                           a1.cpu_allocated, a1.memory_allocated, <<>>)]

\* release_resources, lines 385-387: allocated_workers
reverse_workers(m, id) ==
    LET workers_released == Len(m.allocations[id].workers_allocated)
    IN  IF workers_released > 0
        THEN [m EXCEPT !.capacity.allocated_workers = @ - workers_released]
        ELSE m

\* release_resources, lines 388-412: allocated_cpu, allocated_memory, the
\* workers' status, Released, active_allocations
reclaim_rest(m, id, t) ==
    LET a == m.allocations[id]
        c1 == IF Len(a.workers_allocated) > 0
              THEN [m.capacity EXCEPT
                      !.allocated_cpu = @ - a.cpu_allocated,
                      !.allocated_memory = @ - a.memory_allocated]
              ELSE m.capacity
        a1 == [a EXCEPT !.workers_allocated = destroy_workers(@),
                        !.state = "released", !.released_at = t]
        c2 == [c1 EXCEPT !.active_allocations = @ - 1]
    IN  [m |-> [m EXCEPT !.capacity = c2, !.allocations[id] = a1],
         result |-> Result("release_resources", id, "released", "none",
                           Len(a.workers_allocated), a.cpu_allocated,
                           a.memory_allocated, <<>>)]

QueryWorkerInputs == {{4}, {7}}
QueryOps == {"get_capacity", "list_allocations"}
NoAllocation == ResourceAllocation(0, "none", "normal", <<>>, None, 0, 0)

\* a handler invocation with the request's local `allocation`
CallTask(op, workers, id) ==
    Task(op, workers, id, Len(allocations)) @@ [alloc |-> NoAllocation]

InitQuery ==
    /\ InitManager({ClusterCapacity(DefaultTotalCpu, DefaultTotalMemory,
                                    DefaultTotalWorkers)})
    /\ now = 0
    /\ last = NoResult
    /\ tasks = <<>>
    /\ cluster = NoCluster
    /\ running = 0

\* a client issues a request, a release or a query
SubmitCall ==
    /\ Len(tasks) < MaxTasks
    /\ \/ \E w \in QueryWorkerInputs :
             /\ Len(allocations) < MaxAllocs
             /\ tasks' = Append(tasks, CallTask("request_resources", w, 0))
       \/ \E id \in ReleaseIds :
             tasks' = Append(tasks, CallTask("release_resources", None, id))
       \/ \E op \in QueryOps : tasks' = Append(tasks, CallTask(op, None, 0))
    /\ UNCHANGED <<mgr, now, last, running, cluster>>

ReqReserve(t) ==
    /\ Runnable(t)
    /\ tasks[t].op = "request_resources" /\ tasks[t].pc = "checked"
    /\ LET alloc == ResourceAllocation(Len(allocations) + 1, "j1", "normal",
                                       <<"fs">>, tasks[t].workers, 1,
                                       tasks[t].created_at)
       IN  IF ~tasks[t].adm.ok
           THEN LET r == request_fail(CurrentManager, alloc, tasks[t].adm.error)
                IN  /\ SetManager(r.m)
                    /\ Advance(t, [tasks[t] EXCEPT !.pc = "done",
                                                   !.result = r.result])
           ELSE LET r == request_reserve(CurrentManager, alloc)
                IN  /\ SetManager(r.m)
                    /\ Advance(t, [tasks[t] EXCEPT !.pc = "reserved",
                                                   !.alloc = r.alloc])
    /\ UNCHANGED <<now, last, cluster>>

ReqFinish(t) ==
    /\ Runnable(t)
    /\ tasks[t].op = "request_resources" /\ tasks[t].pc = "reserved"
    /\ LET r == request_finish(CurrentManager, tasks[t].alloc, now)
       IN  /\ SetManager(r.m)
           /\ Advance(t, [tasks[t] EXCEPT !.pc = "done", !.result = r.result])
    /\ UNCHANGED <<now, last, cluster>>

RelReverse(t) ==
    /\ Runnable(t)
    /\ tasks[t].op = "release_resources" /\ tasks[t].pc = "reclaim"
    /\ SetManager(reverse_workers(CurrentManager, tasks[t].allocation_id))
    /\ Advance(t, [tasks[t] EXCEPT !.pc = "reversed"])
    /\ UNCHANGED <<now, last, cluster>>

RelFinish(t) ==
    /\ Runnable(t)
    /\ tasks[t].op = "release_resources" /\ tasks[t].pc = "reversed"
    /\ LET r == reclaim_rest(CurrentManager, tasks[t].allocation_id, now)
       IN  /\ SetManager(r.m)
           /\ Advance(t, [tasks[t] EXCEPT !.pc = "done", !.result = r.result])
    /\ UNCHANGED <<now, last, cluster>>

\* get_capacity or list_allocations: the handler's one synchronous call
QueryRun(t) ==
    /\ Runnable(t)
    /\ tasks[t].op \in QueryOps /\ tasks[t].pc = "start"
    /\ LET r == IF tasks[t].op = "get_capacity"
                THEN get_capacity(CurrentManager)
                ELSE [op |-> "list_allocations",
                      allocations |-> list_allocations(CurrentManager, None,
                                                       None, now)]
       IN  Advance(t, [tasks[t] EXCEPT !.pc = "done", !.result = r])
    /\ UNCHANGED <<mgr, now, last, cluster>>

RequestReserveStep == \E t \in DOMAIN tasks : ReqReserve(t)
RequestFinishStep == \E t \in DOMAIN tasks : ReqFinish(t)
ReleaseReverseStep == \E t \in DOMAIN tasks : RelReverse(t)
ReleaseFinishStep == \E t \in DOMAIN tasks : RelFinish(t)
QueryStep == \E t \in DOMAIN tasks : QueryRun(t)

QueryNext ==
    \/ SubmitCall
    \/ RequestCheckStep
    \/ RequestReserveStep
    \/ RequestFinishStep
    \/ ReleaseGateStep
    \/ ReleaseReverseStep
    \/ ReleaseFinishStep
    \/ QueryStep

SpecQuery == InitQuery /\ [][QueryNext]_vars

\* the two halves of each split method make up the whole method
SplitAgrees ==
    /\ \A w \in QueryWorkerInputs :
          LET alloc == ResourceAllocation(Len(allocations) + 1, "j1", "normal",
                                          <<"fs">>, w, 1, now)
              r == request_reserve(CurrentManager, alloc)
          IN  request_finish(r.m, r.alloc, now)
                  = request_grant(CurrentManager, alloc, now)
    /\ \A id \in DOMAIN allocations :
          allocations[id].state = "releasing" =>
              reclaim_rest(reverse_workers(CurrentManager, id), id, now)
                  = reclaim(CurrentManager, id, now)

\* task t is a query that runs in this step
Answers(t) ==
    /\ tasks[t].op \in QueryOps
    /\ tasks[t].pc = "start"
    /\ tasks'[t].pc = "done"

\* C22: a read-only query (get_capacity, list_allocations) that runs
\* concurrently with a request or a release never observes a partial update:
\* the snapshot it returns has allocated_workers, allocated_cpu,
\* allocated_memory, active_allocations and the record's state either all
\* from before the operation or all from after it.  When the query runs no
\* request or release is between its first and its last write, the counters
\* it returns are the sums over the records that hold resources, and no
\* record it lists is Releasing.
C22_QuerySeesNoPartialUpdate ==
    [][ \A t \in DOMAIN tasks :
          Answers(t) =>
            /\ mgr' = mgr
            /\ \A u \in DOMAIN tasks \ {t} : tasks[u].pc \in {"start", "done"}
            /\ tasks[t].op = "get_capacity" =>
                  LET r == tasks'[t].result
                  IN  /\ r = get_capacity(CurrentManager)
                      /\ r.allocated_workers = CommittedWorkers(allocations)
                      /\ r.allocated_cpu = CommittedCpu(allocations)
                      /\ r.allocated_memory = CommittedMemory(allocations)
                      /\ r.allocated_cpu = r.allocated_workers * WorkerCpu
                      /\ r.allocated_memory = r.allocated_workers * WorkerMemory
            /\ tasks[t].op = "list_allocations" =>
                  LET r == tasks'[t].result.allocations
                  IN  /\ Len(r) = Len(allocations)
                      /\ \A k \in DOMAIN r :
                            /\ r[k].state = allocations[k].state
                            /\ r[k].state \in {"active", "released", "failed"}
                            /\ r[k].workers > 0 /\ r[k].state = "active" =>
                                  capacity.allocated_workers >= r[k].workers
      ]_vars

\* a request and a query were in flight together (the query was issued after
\* the request and before the request's record was stored), and the query's
\* snapshot shows the request's whole commit
C22_Witness ==
    \E u, t \in DOMAIN tasks :
        /\ u < t
        /\ tasks[u].op = "request_resources" /\ tasks[u].pc = "done"
        /\ tasks[u].arrived = 0 /\ tasks[t].arrived = 0
        /\ tasks[t].op = "get_capacity" /\ tasks[t].pc = "done"
        /\ tasks[t].result.allocated_workers = 4
        /\ tasks[t].result.allocated_cpu = 4 * WorkerCpu
        /\ tasks[t].result.active_allocations = 1

-----------------------------------------------------------------------------
(* The periodic sweep task: _periodic_cleanup, created by run() and          *)
(* cancelled in its finally clause.  The task is tasks[1]; it is suspended   *)
(* only at `await asyncio.sleep(300)`, position "sleep".                     *)

ShutdownWorkerInputs == {{4}, {7}}

\* asyncio.create_task(self._periodic_cleanup()), line 408
PeriodicTask ==
    [Task("cleanup_expired_allocations", None, 0, 0) EXCEPT !.pc = "sleep"]
        @@ [raised |-> FALSE]

Periodic == tasks[1]

InitShutdown ==
    /\ InitManager({ClusterCapacity(DefaultTotalCpu, DefaultTotalMemory,
                                    DefaultTotalWorkers)})
    /\ now = 0
    /\ last = NoResult
    /\ tasks = <<PeriodicTask>>
    /\ cluster = NoCluster
    /\ running = 0

\* a cancellation that may interrupt the task between any two statements
CancellableAnywhere(task) == task.pc # "cancelled"

\* task.cancel() raises CancelledError inside the task at the await where
\* it is suspended (line 396)
Cancellable(task) == task.pc = "sleep"

\* a client issues request_resources
SubmitRequest ==
    /\ Periodic.pc # "cancelled"
    /\ Len(tasks) < MaxTasks
    /\ \E w \in ShutdownWorkerInputs :
          tasks' = Append(tasks, Task("request_resources", w, 0,
                                      Len(allocations)))
    /\ UNCHANGED <<mgr, now, last, running, cluster>>

\* asyncio.sleep(300) returns: line 397 runs next
PeriodicWake ==
    /\ Periodic.pc = "sleep"
    /\ running = 0
    /\ tasks' = [tasks EXCEPT ![1].pc = "start"]
    /\ running' = 1
    /\ UNCHANGED <<mgr, now, last, cluster>>

\* lines 398-399 and the next turn of `while True`, up to the await of
\* line 396: the task still holds the thread the sweep ran on and gives it
\* up here
PeriodicSleep ==
    /\ running = 1
    /\ Periodic.pc = "done"
    /\ tasks' = [tasks EXCEPT ![1].pc = "sleep", ![1].i = 0, ![1].n = 0,
                              ![1].expired = <<>>, ![1].result = NoResult]
    /\ running' = 0
    /\ UNCHANGED <<mgr, now, last, cluster>>

\* an exception leaves cleanup_expired_allocations outside the try block of
\* release_resources; lines 402-403 report it and the loop goes on
PeriodicRaises ==
    /\ running = 1
    /\ Periodic.pc \in {"start", "check", "call_release"}
    /\ tasks' = [tasks EXCEPT ![1].pc = "sleep", ![1].i = 0, ![1].n = 0,
                              ![1].expired = <<>>, ![1].raised = TRUE]
    /\ running' = 0
    /\ UNCHANGED <<mgr, now, last, cluster>>

\* run(), lines 426-431: cancel the task and await it; lines 400-401 break.
\* No client handler holds the thread when run() gets there.
PeriodicCancel ==
    /\ running \in {0, 1}
    /\ Cancellable(Periodic)
    /\ tasks' = [tasks EXCEPT ![1].pc = "cancelled"]
    /\ running' = IF running = 1 THEN 0 ELSE running
    /\ UNCHANGED <<mgr, now, last, cluster>>

ShutdownNext ==
    \/ SubmitRequest
    \/ ServerTick
    \/ RequestCheckStep
    \/ RequestApplyStep
    \/ PeriodicWake
    \/ SweepStartStep
    \/ SweepCheckStep
    \/ SweepCallStep
    \/ SweepReclaimStep
    \/ PeriodicSleep
    \/ PeriodicRaises
    \/ PeriodicCancel

SpecShutdown == InitShutdown /\ [][ShutdownNext]_vars

\* after the cancellation no record is Releasing and the counters are the
\* sums over the Active records
C23_CleanAfterCancel ==
    Periodic.pc = "cancelled" =>
        /\ \A id \in DOMAIN allocations : allocations[id].state # "releasing"
        /\ capacity.allocated_workers = ActiveWorkers(allocations)
        /\ capacity.allocated_cpu = CommittedCpu(allocations)
        /\ capacity.allocated_memory = CommittedMemory(allocations)
        /\ capacity.active_allocations = ActiveCount(allocations)

\* the loop ends by cancellation only, at the sleep; after an exception the
\* task sleeps again, and a sleeping task wakes for its next cycle
C23_LoopGoesOn ==
    /\ Periodic.pc \in {"sleep", "start", "check", "call_release",
                        "call_reclaim", "done", "cancelled"}
    /\ Periodic.raised /\ Periodic.pc # "cancelled" /\ running = 0 =>
          Periodic.pc = "sleep" /\ ENABLED PeriodicWake
    /\ Periodic.pc = "done" => running = 1 /\ ENABLED PeriodicSleep

\* C23: the periodic sweep task can be cancelled cleanly at shutdown:
\* cancellation stops the loop without leaving a partially applied ledger
\* reversal (no allocation stuck in Releasing, no ledger counter decremented
\* without the record reaching Released), and an exception raised in one
\* sweep cycle does not stop later cycles from running.
C23_CancelledCleanly ==
    /\ [](C23_CleanAfterCancel /\ C23_LoopGoesOn)
    /\ [][ /\ Periodic'.pc = "cancelled" /\ Periodic.pc # "cancelled" =>
                 Periodic.pc = "sleep" /\ mgr' = mgr
           /\ Periodic.pc = "cancelled" => Periodic' = Periodic
           /\ Periodic'.raised /\ ~Periodic.raised => Periodic'.pc = "sleep"
         ]_vars

\* a sweep cycle raised, a later cycle released an expired allocation, and
\* then the task was cancelled
C23_Witness ==
    /\ Periodic.pc = "cancelled"
    /\ Periodic.raised
    /\ \E id \in DOMAIN allocations :
          /\ allocations[id].state = "released"
          /\ Len(allocations[id].workers_allocated) > 0

-----------------------------------------------------------------------------
(* Requests without workers *)

\* the workers argument of a request that asks for no worker: absent or 0
NoWorkerInputs == {None, {0}}

\* C33: a request with no workers (workers absent or 0) performs no
\* admission check: it is granted and becomes Active even when the worker
\* pool, CPU and memory are fully committed, it acquires every requested
\* service, leaves allocated_workers, allocated_cpu and allocated_memory
\* unchanged, and increases active_allocations by exactly 1.
C33_NoWorkersAlwaysGranted ==
    \A workers \in NoWorkerInputs, servers \in {<<"fs">>, <<"fs", "github">>} :
        LET r == request_resources(CurrentManager, "j1", servers, workers,
                                   "normal", 1, now)
            rec == r.m.allocations[r.result.allocation_id]
        IN  /\ r.result.status = "active"
            /\ rec.state = "active"
            /\ Len(rec.workers_allocated) = 0
            /\ r.m.capacity.allocated_workers = capacity.allocated_workers
            /\ r.m.capacity.allocated_cpu = capacity.allocated_cpu
            /\ r.m.capacity.allocated_memory = capacity.allocated_memory
            /\ r.m.capacity.active_allocations = capacity.active_allocations + 1
            /\ Len(rec.mcp_server_specs) = Len(servers)
            /\ \A k \in DOMAIN servers :
                  /\ rec.mcp_server_specs[k].server_name = servers[k]
                  /\ servers[k] \in DOMAIN r.m.mcp_server_registry
                  /\ rec.mcp_server_specs[k] = r.m.mcp_server_registry[servers[k]]

\* a request for 0 workers was just granted on a cluster with no free
\* worker slot, no free CPU or no memory for one more worker
C33_Witness ==
    /\ last.op = "request_resources" /\ last.status = "active"
    /\ last.workers = 0
    /\ allocations[last.allocation_id].state = "active"
    /\ \/ available_workers(capacity) = 0
       \/ available_cpu(capacity) = 0
       \/ available_memory(capacity) < WorkerMemory
    /\ capacity.allocated_workers > 0
    /\ capacity.active_allocations = 2

-----------------------------------------------------------------------------
(* Worker descriptors over the life of their allocation *)

AllStatus(ws, status) == \A k \in DOMAIN ws : ws[k].status = status

\* C34: worker descriptors follow their allocation's lifecycle: while an
\* allocation is Active all of its worker descriptors have status 'active',
\* after it is Released all of them have status 'destroying', and the
\* descriptors are never removed from the record: the number of workers a
\* record holds never changes after the grant.
C34_WorkersFollowLifecycle ==
    /\ [](\A id \in DOMAIN allocations :
              LET a == allocations[id]
              IN  /\ a.state = "active" =>
                        /\ AllStatus(a.workers_allocated, "active")
                        /\ WorkersRequested(a.workers_requested) =>
                              Len(a.workers_allocated)
                                  = WorkerCount(a.workers_requested)
                  /\ a.state = "released" =>
                        AllStatus(a.workers_allocated, "destroying"))
    /\ [][\A id \in DOMAIN allocations :
              /\ Len(allocations'[id].workers_allocated)
                    = Len(allocations[id].workers_allocated)
              /\ \A k \in DOMAIN allocations[id].workers_allocated :
                    allocations'[id].workers_allocated[k].worker_id
                        = allocations[id].workers_allocated[k].worker_id]_vars

\* one allocation was released and still holds its two descriptors, both
\* 'destroying', while another is Active with an 'active' worker
C34_Witness ==
    \E i, j \in DOMAIN allocations :
        /\ allocations[i].state = "released"
        /\ Len(allocations[i].workers_allocated) = 2
        /\ AllStatus(allocations[i].workers_allocated, "destroying")
        /\ allocations[j].state = "active"
        /\ Len(allocations[j].workers_allocated) > 0
        /\ AllStatus(allocations[j].workers_allocated, "active")

-----------------------------------------------------------------------------
(* The service registry and the running-service list *)

IsPrefix(s, t) == Len(s) <= Len(t) /\ \A k \in DOMAIN s : s[k] = t[k]

\* C35: the service registry only grows: a service name once registered is
\* never removed or replaced, the running-service set of the ledger always
\* equals the set of registered service names and contains no duplicates,
\* and it is a superset of the service names requested by every Active
\* allocation.
C35_RegistryOnlyGrows ==
    /\ [](/\ SeqToSet(capacity.running_mcp_servers) = DOMAIN mcp_server_registry
          /\ Len(capacity.running_mcp_servers)
                = Cardinality(DOMAIN mcp_server_registry)
          /\ \A n \in DOMAIN mcp_server_registry :
                /\ mcp_server_registry[n].server_name = n
                /\ mcp_server_registry[n].status = "running"
          /\ \A id \in DOMAIN allocations :
                allocations[id].state = "active" =>
                    SeqToSet(allocations[id].mcp_servers)
                        \subseteq SeqToSet(capacity.running_mcp_servers))
    /\ [][/\ \A n \in DOMAIN mcp_server_registry :
                /\ n \in DOMAIN mcp_server_registry'
                /\ mcp_server_registry'[n] = mcp_server_registry[n]
          /\ IsPrefix(capacity.running_mcp_servers,
                      capacity'.running_mcp_servers)]_vars

\* services were created, then acquired again by a later request, and the
\* allocation that created the first one has been released
C35_Witness ==
    /\ ServicesCreated = 2 * (PortPoolSize \div 5)
    /\ Len(capacity.running_mcp_servers) = ServicesCreated
    /\ Len(allocations) >= 3
    /\ allocations[1].state = "released"
    /\ \E id \in DOMAIN allocations :
          /\ allocations[id].state = "active"
          /\ allocations[id].mcp_servers
                = <<ServiceName(ServicesCreated), ServiceName(1)>>

-----------------------------------------------------------------------------
(* The port allocator under acquisitions of new and of running services *)

\* the k-th service that was created (the clients name them in that order)
PoolEntry(k) == PortBase + ((k - 1) % PortPoolSize)

\* C39: the port allocator advances only when a service is newly created:
\* acquiring a name that is already running, also a name repeated within
\* one request's service list, consumes no port, and the k-th newly created
\* service receives pool entry (k-1) mod pool_size, so the index wraps to
\* the first port after the pool is exhausted.
C39_PortPerNewService ==
    /\ [](/\ next_port_idx = ServicesCreated % PortPoolSize
          /\ \A k \in 1..ServicesCreated :
                /\ ServiceName(k) \in DOMAIN mcp_server_registry
                /\ mcp_server_registry[ServiceName(k)].port = PoolEntry(k)
          /\ LET new == ServiceName(ServicesCreated + 1)
                 r == request_resources(CurrentManager, "j1",
                                        <<new, new, new>>, None, "normal",
                                        DefaultTtl, now)
                 rec == r.m.allocations[r.result.allocation_id]
             IN  /\ r.m.next_port_idx = (next_port_idx + 1) % PortPoolSize
                 /\ \A k \in 1..3 :
                       rec.mcp_server_specs[k].port
                           = PoolEntry(ServicesCreated + 1)
          /\ ServicesCreated > 0 =>
                LET old == ServiceName(1)
                    r == request_resources(CurrentManager, "j1",
                                           <<old, old>>, None, "normal",
                                           DefaultTtl, now)
                IN  /\ r.m.next_port_idx = next_port_idx
                    /\ r.m.mcp_server_registry = mcp_server_registry)
    /\ [][next_port_idx' # next_port_idx =>
             /\ ServicesCreated' > ServicesCreated
             /\ next_port_idx'
                   = (next_port_idx + ServicesCreated' - ServicesCreated)
                        % PortPoolSize]_vars

\* more services than the pool has ports were created: the 101st has the
\* first port of the pool again, and the index stands behind the 120th
C39_PoolWrapped ==
    /\ ServicesCreated = 6 * (PortPoolSize \div 5)
    /\ mcp_server_registry[ServiceName(PortPoolSize + 1)].port = PortBase
    /\ mcp_server_registry[ServiceName(1)].port = PortBase
    /\ next_port_idx = PortPoolSize \div 5

-----------------------------------------------------------------------------
(* The ledger's totals and the steps that move its counters *)

Totals(c) == <<c.total_cpu, c.total_memory, c.total_workers>>
Allocated(c) == <<c.allocated_workers, c.allocated_cpu, c.allocated_memory>>

\* a request was granted in this step and the counters grew by its amounts
GrantRaises ==
    /\ RequestCall
    /\ last'.status = "active"
    /\ last'.workers > 0
    /\ Allocated(capacity') =
          <<capacity.allocated_workers + last'.workers,
            capacity.allocated_cpu + last'.cpu,
            capacity.allocated_memory + last'.memory>>

\* a release or a sweep reclaimed records in this step and the counters
\* fell by their amounts
ReclaimLowers ==
    /\ last'.op \in {"release_resources", "cleanup_expired_allocations"}
    /\ NewlyReleased # {}
    /\ Allocated(capacity') =
          <<capacity.allocated_workers - ReleasedAmounts(NewlyReleased, "workers"),
            capacity.allocated_cpu - ReleasedAmounts(NewlyReleased, "cpu"),
            capacity.allocated_memory - ReleasedAmounts(NewlyReleased, "memory")>>

\* C36: the ledger totals are fixed: total_cpu, total_memory and
\* total_workers keep the values given at manager construction through every
\* request, release and sweep, and the allocated_* counters are changed only
\* by a granted request (increase) and by a release that reaches the reclaim
\* step (decrease).
C36_TotalsFixedCountersMoveByCommitAndReverse ==
    /\ [](Totals(capacity) \in {Totals(c) : c \in Capacities})
    /\ [][/\ Totals(capacity') = Totals(capacity)
          /\ Allocated(capacity') # Allocated(capacity) =>
                GrantRaises \/ ReclaimLowers
          /\ RequestCall /\ last'.status = "failed" =>
                Allocated(capacity') = Allocated(capacity)
          /\ last'.op = "release_resources" /\ now' = now
                /\ last'.status \in {"error", "already_released"} =>
                Allocated(capacity') = Allocated(capacity)]_vars

\* after a grant, a refused request and the release of one of two grants
\* the totals are the constructor's and one grant is still counted
C36_Witness ==
    /\ last.op = "release_resources" /\ last.status = "released"
    /\ last.workers > 0
    /\ capacity.allocated_workers > 0
    /\ Totals(capacity) = <<3, 4 * WorkerMemory, 4>>

-----------------------------------------------------------------------------
(* Record states between calls on the server *)

\* no handler is inside a manager method
BetweenCalls == running = 0

\* C37: between operations (after every request_resources, release_resources
\* or cleanup_expired_allocations call has returned) every record stored in
\* the registry is Active, Released or Failed: Pending and Releasing are
\* only transient inside a call, and every successful request's record has
\* activated_at set.
C37_SettledBetweenCalls ==
    /\ BetweenCalls =>
          \A id \in DOMAIN allocations :
              allocations[id].state \in {"active", "released", "failed"}
    /\ \A id \in DOMAIN allocations :
          /\ allocations[id].state # "pending"
          /\ allocations[id].state = "releasing" =>
                /\ running # 0
                /\ tasks[running].pc \in {"reclaim", "call_reclaim"}
    /\ \A t \in DOMAIN tasks :
          /\ tasks[t].op = "request_resources"
          /\ tasks[t].pc = "done"
          /\ tasks[t].result.status = "active"
          => LET a == allocations[tasks[t].result.allocation_id]
             IN  /\ a.activated_at # NoTime
                 /\ a.activated_at >= a.created_at
                 /\ a.state \in {"active", "releasing", "released"}

\* two requests and a release have returned: one record is Released, the
\* other Active, and no call is in progress
C37_Witness ==
    /\ BetweenCalls
    /\ \A t \in DOMAIN tasks : tasks[t].pc = "done"
    /\ \E t \in DOMAIN tasks :
          tasks[t].op = "release_resources" /\ tasks[t].result.status = "released"
    /\ \E i, j \in DOMAIN allocations :
          /\ allocations[i].state = "released"
          /\ allocations[j].state = "active"
          /\ allocations[j].activated_at # NoTime

-----------------------------------------------------------------------------
(* WorkerManager: draining and destroying Kubernetes worker nodes *)

NodeNames == {"permanent-worker-1", "burst-worker-1"}

\* worker ids a caller passes: the nodes and one name the cluster never had
WorkerIds == NodeNames \cup {"missing-worker"}

NoEntries == [k \in {} |-> ""]

\* metadata.labels of a node, as far as _get_node_type reads it
LabelSets ==
    {NoEntries, [k \in {"worker-type"} |-> "burst"],
     [k \in {"worker-type"} |-> "permanent"]}

\* metadata.annotations of a node
AnnotationSets == {NoEntries, [k \in {"worker-ttl"} |-> "24h"]}

\* spec.unschedulable of a node: absent, false or true
UnschedulableValues == {{}, {FALSE}, {TRUE}}

Nodes == [labels : LabelSets, annotations : AnnotationSets, unschedulable : UnschedulableValues]

\* what kubectl delete node does: fail, or delete and print its message, or
\* delete and print nothing
DeleteOutcomes == {"error", "deleted", "deleted_silently"}

\* what kubectl drain does: succeed, fail before cordoning, or fail while
\* evicting, after it cordoned the node
DrainOutcomes == {"drained", "error", "error_cordoned"}

\* _get_node_type, lines 111-132
get_node_type(node) ==
    IF "worker-type" \in DOMAIN node.labels /\ node.labels["worker-type"] = "burst"
    THEN "burst"
    ELSE IF "worker-ttl" \in DOMAIN node.annotations
         THEN "burst"
         ELSE "permanent"

\* spec.get("unschedulable", False), lines 145-146 and 440-441
unschedulable(node) == TRUE \in node.unschedulable

WorkerResult(op, worker_id, force, status, error) ==
    [op |-> op, worker_id |-> worker_id, force |-> force, status |-> status,
     error |-> error]

KubectlGet(worker_id) == <<"get", "node", worker_id>>
KubectlDelete(worker_id) == <<"delete", "node", worker_id>>
KubectlDrain(worker_id) == <<"drain", worker_id>>

RemoveNode(nodes, worker_id) == [n \in DOMAIN nodes \ {worker_id} |-> nodes[n]]

\* a destroy_worker whose force flag also skips the burst check
destroy_worker_force_skips_safety(c, worker_id, force, outcome) ==
    LET got == [c EXCEPT !.calls = <<KubectlGet(worker_id)>>]
        Raise(e) == [cluster |-> got,
                     result |-> WorkerResult("destroy_worker", worker_id, force, "error", e)]
    IN  IF worker_id \notin DOMAIN c.nodes THEN Raise("not_found")
        ELSE IF ~force /\ get_node_type(c.nodes[worker_id]) # "burst"
        THEN Raise("safety_violation")
        ELSE IF ~force /\ ~unschedulable(c.nodes[worker_id]) THEN Raise("not_drained")
        ELSE LET deleting == [got EXCEPT !.calls = Append(@, KubectlDelete(worker_id))]
                 deleted == [deleting EXCEPT !.nodes = RemoveNode(@, worker_id)]
             IN  IF outcome = "deleted_silently"
                 THEN [cluster |-> deleted,
                       result |-> WorkerResult("destroy_worker", worker_id, force, "destroyed", "none")]
                 ELSE [cluster |-> IF outcome = "deleted" THEN deleted ELSE deleting,
                       result |-> WorkerResult("destroy_worker", worker_id, force, "error", "remove_failed")]

\* a destroy_worker that never looks at spec.unschedulable
destroy_worker_ignoring_drain(c, worker_id, force, outcome) ==
    LET got == [c EXCEPT !.calls = <<KubectlGet(worker_id)>>]
        Raise(e) == [cluster |-> got,
                     result |-> WorkerResult("destroy_worker", worker_id, force, "error", e)]
    IN  IF worker_id \notin DOMAIN c.nodes THEN Raise("not_found")
        ELSE IF get_node_type(c.nodes[worker_id]) # "burst"
        THEN Raise("safety_violation")
        ELSE LET deleting == [got EXCEPT !.calls = Append(@, KubectlDelete(worker_id))]
                 deleted == [deleting EXCEPT !.nodes = RemoveNode(@, worker_id)]
             IN  IF outcome = "deleted_silently"
                 THEN [cluster |-> deleted,
                       result |-> WorkerResult("destroy_worker", worker_id, force, "destroyed", "none")]
                 ELSE [cluster |-> IF outcome = "deleted" THEN deleted ELSE deleting,
                       result |-> WorkerResult("destroy_worker", worker_id, force, "error", "remove_failed")]

\* destroy_worker, lines 409-480: get the node (423-427), refuse a permanent
\* worker (429-435), refuse an undrained one unless forced (437-444), delete
\* the node (446-452) and report (454-470).  _run_kubectl parses the
\* command's output as JSON (lines 101-107), so a delete that prints its
\* message raises after the node is gone.
destroy_worker(c, worker_id, force, outcome) ==
    LET got == [c EXCEPT !.calls = <<KubectlGet(worker_id)>>]
        Raise(e) == [cluster |-> got,
                     result |-> WorkerResult("destroy_worker", worker_id, force, "error", e)]
    IN  IF worker_id \notin DOMAIN c.nodes THEN Raise("not_found")
        ELSE IF get_node_type(c.nodes[worker_id]) # "burst"
        THEN Raise("safety_violation")
        ELSE IF ~force /\ ~unschedulable(c.nodes[worker_id]) THEN Raise("not_drained")
        ELSE LET deleting == [got EXCEPT !.calls = Append(@, KubectlDelete(worker_id))]
                 deleted == [deleting EXCEPT !.nodes = RemoveNode(@, worker_id)]
             IN  IF outcome = "deleted_silently"
                 THEN [cluster |-> deleted,
                       result |-> WorkerResult("destroy_worker", worker_id, force, "destroyed", "none")]
                 ELSE [cluster |-> IF outcome = "deleted" THEN deleted ELSE deleting,
                       result |-> WorkerResult("destroy_worker", worker_id, force, "error", "remove_failed")]

\* drain_worker, lines 357-407: get the node (371-375), run kubectl drain
\* (377-395), report (397-407); kubectl drain cordons the node before it
\* evicts the pods
drain_worker(c, worker_id, outcome) ==
    LET got == [c EXCEPT !.calls = <<KubectlGet(worker_id)>>]
    IN  IF worker_id \notin DOMAIN c.nodes
        THEN [cluster |-> got,
              result |-> WorkerResult("drain_worker", worker_id, FALSE, "error", "not_found")]
        ELSE LET draining == [got EXCEPT !.calls = Append(@, KubectlDrain(worker_id))]
                 cordoned == [draining EXCEPT !.nodes[worker_id].unschedulable = {TRUE}]
             IN  IF outcome = "drained"
                 THEN [cluster |-> cordoned,
                       result |-> WorkerResult("drain_worker", worker_id, FALSE, "draining", "none")]
                 ELSE [cluster |-> IF outcome = "error_cordoned" THEN cordoned ELSE draining,
                       result |-> WorkerResult("drain_worker", worker_id, FALSE, "error", "drain_failed")]

InitNodes ==
    /\ InitManager({ClusterCapacity(DefaultTotalCpu, DefaultTotalMemory,
                                    DefaultTotalWorkers)})
    /\ now = 0
    /\ last = NoResult
    /\ tasks = <<>>
    /\ running = 0
    /\ \E nodes \in [NodeNames -> Nodes] :
          cluster = [NoCluster EXCEPT !.nodes = nodes]

DestroyWorker ==
    /\ \E worker_id \in WorkerIds, force \in BOOLEAN, outcome \in DeleteOutcomes :
          LET r == destroy_worker(cluster, worker_id, force, outcome)
          IN  /\ cluster' = r.cluster
              /\ last' = r.result
    /\ UNCHANGED <<mgr, now, tasks, running>>

DrainWorker ==
    /\ \E worker_id \in WorkerIds, outcome \in DrainOutcomes :
          LET r == drain_worker(cluster, worker_id, outcome)
          IN  /\ cluster' = r.cluster
              /\ last' = r.result
    /\ UNCHANGED <<mgr, now, tasks, running>>

NodesNext ==
    \/ DestroyWorker
    \/ DrainWorker

SpecNodes == InitNodes /\ [][NodesNext]_vars

DeleteIssued(c) == \E k \in DOMAIN c.calls : c.calls[k][1] = "delete"

PermanentNodes(c) == {n \in DOMAIN c.nodes : get_node_type(c.nodes[n]) = "permanent"}

\* a node without the worker-type=burst label and without a worker-ttl
\* annotation
Unmarked(node) ==
    /\ ~("worker-type" \in DOMAIN node.labels /\ node.labels["worker-type"] = "burst")
    /\ "worker-ttl" \notin DOMAIN node.annotations

\* C31: destroy_worker never removes a permanent worker: for a node that is
\* not classified burst (no worker-type=burst label and no worker-ttl
\* annotation) it fails with a safety-violation error and issues no node
\* deletion, with or without force; so no step ever takes a permanent node
\* out of the cluster.
C31_PermanentNeverDestroyed ==
    /\ [](\A n \in DOMAIN cluster.nodes :
            /\ Unmarked(cluster.nodes[n]) <=> get_node_type(cluster.nodes[n]) = "permanent"
            /\ Unmarked(cluster.nodes[n]) =>
                  \A force \in BOOLEAN, outcome \in DeleteOutcomes :
                      LET r == destroy_worker(cluster, n, force, outcome)
                      IN  /\ r.result.status = "error"
                          /\ r.result.error = "safety_violation"
                          /\ ~DeleteIssued(r.cluster)
                          /\ r.cluster.nodes = cluster.nodes)
    /\ [][\A n \in PermanentNodes(cluster) :
            /\ n \in DOMAIN cluster'.nodes
            /\ get_node_type(cluster'.nodes[n]) = "permanent"]_vars

\* a forced destroy of a drained permanent worker was refused and the node
\* is still in the cluster
C31_Witness ==
    /\ last.op = "destroy_worker"
    /\ last.force
    /\ last.error = "safety_violation"
    /\ last.worker_id \in PermanentNodes(cluster)
    /\ unschedulable(cluster.nodes[last.worker_id])
    /\ ~DeleteIssued(cluster)

BurstNodes(c) == {n \in DOMAIN c.nodes : get_node_type(c.nodes[n]) = "burst"}

\* the step is an unforced destroy_worker that took node n out of the cluster
UnforcedRemoval(n) ==
    /\ n \in DOMAIN cluster.nodes
    /\ n \notin DOMAIN cluster'.nodes
    /\ last'.op = "destroy_worker"
    /\ ~last'.force

\* C32: drain precedes destroy: without force, destroy_worker deletes a
\* burst worker's node only if the node is already marked unschedulable
\* (drained); on an undrained burst worker it fails with a not-drained error
\* and deletes nothing, and only force=True bypasses this ordering.
C32_DrainBeforeDestroy ==
    /\ [](\A n \in BurstNodes(cluster), outcome \in DeleteOutcomes :
            LET unforced == destroy_worker(cluster, n, FALSE, outcome)
                forced == destroy_worker(cluster, n, TRUE, outcome)
            IN  /\ DeleteIssued(unforced.cluster) <=> unschedulable(cluster.nodes[n])
                /\ ~unschedulable(cluster.nodes[n]) =>
                      /\ unforced.result.status = "error"
                      /\ unforced.result.error = "not_drained"
                      /\ unforced.cluster.nodes = cluster.nodes
                /\ DeleteIssued(forced.cluster)
                /\ outcome # "error" => n \notin DOMAIN forced.cluster.nodes)
    /\ [][\A n \in NodeNames :
            UnforcedRemoval(n) => unschedulable(cluster.nodes[n])]_vars

\* an unforced destroy removed a burst worker while the other burst worker,
\* never drained, is still in the cluster
C32_Witness ==
    /\ last.op = "destroy_worker"
    /\ ~last.force
    /\ last.status = "destroyed"
    /\ last.worker_id \notin DOMAIN cluster.nodes
    /\ DeleteIssued(cluster)
    /\ \E n \in BurstNodes(cluster) : ~unschedulable(cluster.nodes[n])

-----------------------------------------------------------------------------
(* MCPLifecycleManager: starting, stopping and scaling MCP deployments *)

\* _validate_replicas, line 84: the largest replica count accepted
ReplicaLimit == 10

\* characters of the names a caller passes
AlnumChars == {"f", "s", "F", "S", "d", "b", "1"}
UpperChars == {"F", "S"}

\* str.lower on one character
LowerChar(ch) == CASE ch = "F" -> "f" [] ch = "S" -> "s" [] OTHER -> ch

\* the deployments of the namespace, by name
DeployedNames == {<<"f", "s", "-", "1">>}

\* names a caller passes: deployed, deployed in another case, unknown,
\* empty, and three that Kubernetes does not allow
NameInputs ==
    DeployedNames \cup
    {<<"F", "s", "-", "1">>, <<"d", "b">>, <<>>, <<"-", "f", "s">>,
     <<"f", "s", "-">>, <<"f", "_", "s">>}

ReplicaInputs == {-1, 0, 2, ReplicaLimit + 1}

\* an optional integer of a deployment object: {} is None
OrZero(x) == IF x = {} THEN 0 ELSE CHOOSE v \in x : TRUE

\* _wait_for_ready, line 174 (start_mcp line 328, scale_mcp line 444): the
\* timeout of a caller that passes none, in seconds
DefaultTimeout == 300

\* _wait_for_ready, lines 196 and 198: time.sleep(2) between two reads
PollSeconds == 2

\* timeouts a caller that waits passes: no time at all, and time for two
\* reads
TimeoutInputs == {0, 3}

\* ready replica counts the cluster may report for a deployment of n replicas
ReadyCounts(n) == {k \in {0, 1, n} : k <= n}

\* the deployments a namespace starts with: spec.replicas and
\* status.ready_replicas unset or set, status.replicas following the spec
Deployments ==
    {[replicas |-> r, ready_replicas |-> y, status_replicas |-> r] :
        r \in {{}, {0}, {1}, {2}}, y \in {{}, {0}, {1}, {2}}}

McpResult(op, name, status, error, replicas, ready_replicas) ==
    [op |-> op, name |-> name, status |-> status, error |-> error,
     replicas |-> replicas, ready_replicas |-> ready_replicas]

McpError(op, name, error) == McpResult(op, name, "error", error, 0, 0)

ReadDeployment(name) == <<"read_namespaced_deployment", name>>
ReadService(name) == <<"read_namespaced_service", name>>
PatchDeployment(name, replicas) == <<"patch_namespaced_deployment", name, replicas>>
DeletePods(name) == <<"delete_collection_namespaced_pod", name>>

\* _validate_mcp_name, lines 43-66
validate_mcp_name(name) ==
    IF name = <<>> THEN [ok |-> FALSE, name |-> name]
    ELSE IF \E k \in DOMAIN name : name[k] \notin AlnumChars /\ name[k] # "-"
    THEN [ok |-> FALSE, name |-> name]
    ELSE IF name[1] = "-" \/ name[Len(name)] = "-"
    THEN [ok |-> FALSE, name |-> name]
    ELSE [ok |-> TRUE, name |-> [k \in DOMAIN name |-> LowerChar(name[k])]]

\* _validate_replicas, lines 68-87
validate_replicas(replicas) == ~(replicas < 0 \/ replicas > ReplicaLimit)

\* _get_deployment_status, lines 150-172
get_deployment_status(d) ==
    LET spec_replicas == OrZero(d.replicas)
        ready_replicas == OrZero(d.ready_replicas)
        replicas == OrZero(d.status_replicas)
    IN  IF spec_replicas = 0 THEN "stopped"
        ELSE IF ready_replicas = spec_replicas THEN "running"
        ELSE IF replicas # spec_replicas \/ ready_replicas # spec_replicas
        THEN "scaling"
        ELSE "pending"

\* the callers of the operations: threads that share the manager of
\* get_manager (lines 505-520), which holds no lock, or other clients of
\* the same cluster
Callers == {"a", "b"}

\* a caller with no operation in flight
Idle == [pc |-> "idle", op |-> "none"]

\* an operation in flight: its arguments, the position pc of its thread,
\* its locals (current_replicas of lines 349, 400 and 467; k, the reads
\* _wait_for_ready has made) and the cluster calls it has made.  Only the
\* cluster calls touch shared state, so a thread is followed from one
\* cluster call to its next
Invocation(op, name, replicas, wait_ready, force, timeout) ==
    [op |-> op, name |-> name, replicas |-> replicas,
     wait_ready |-> wait_ready, force |-> force, timeout |-> timeout,
     pc |-> "read", current_replicas |-> 0, k |-> 0, calls |-> <<>>,
     result |-> McpError(op, name, "none")]

Logged(t, call) == [t EXCEPT !.calls = Append(@, call)]

\* the operation raises: ValueError, TimeoutError or Exception
Raised(t, error) ==
    [t EXCEPT !.pc = "done", !.result = McpError(t.op, t.name, error)]

\* a step that leaves the deployments as they are
Same(d, t) == [deployments |-> d, task |-> t]

\* lines 351, 402 and 469: the deployment needs no patch
AtDesiredState(t, current_replicas) ==
    CASE t.op = "start_mcp" -> current_replicas > 0
      [] t.op = "stop_mcp" -> current_replicas = 0
      [] t.op = "scale_mcp" -> current_replicas = t.replicas
      [] OTHER -> TRUE

\* get_mcp_status, lines 247-326, on a name already validated: read the
\* deployment (273), then the service (275), and return the status; the
\* service read touches nothing the deployments hold
get_mcp_status(d, t) ==
    LET got == Logged(t, ReadDeployment(t.name))
    IN  IF t.name \notin DOMAIN d THEN Raised(got, "not_found")
        ELSE [Logged(got, ReadService(t.name)) EXCEPT
                !.pc = "done",
                !.result = McpResult(t.op, t.name,
                                     get_deployment_status(d[t.name]), "none",
                                     OrZero(d[t.name].replicas),
                                     OrZero(d[t.name].ready_replicas))]

\* _get_deployment and the test of the replica count (lines 348-351,
\* 399-402, 466-469)
read_namespaced_deployment(d, t) ==
    LET got == Logged(t, ReadDeployment(t.name))
    IN  IF t.name \notin DOMAIN d THEN Raised(got, "not_found")
        ELSE LET current_replicas == OrZero(d[t.name].replicas)
             IN  [got EXCEPT
                    !.current_replicas = current_replicas,
                    !.pc = IF AtDesiredState(t, current_replicas)
                           THEN "status" ELSE "patch"]

\* apps_v1.patch_namespaced_deployment (lines 355-361, 406-419, 473-479)
\* with spec.replicas of the object read earlier set to t.replicas; the API
\* server applies the patch to the deployment as it is now, or refuses it
\* (ApiException, lines 374-379, 437-442, 492-497).  No line after the
\* patch reads current_replicas, so the local is dropped here
patch_namespaced_deployment(d, t, api_ok, next) ==
    LET sent == [Logged(t, PatchDeployment(t.name, t.replicas)) EXCEPT
                    !.current_replicas = 0]
    IN  IF t.name \notin DOMAIN d THEN Same(d, Raised(sent, "not_found"))
        ELSE IF ~api_ok THEN Same(d, Raised(sent, "api_error"))
        ELSE [deployments |-> [d EXCEPT ![t.name].replicas = {t.replicas}],
              task |-> [sent EXCEPT !.pc = next]]

\* _wait_for_ready, lines 174-200, one turn of its loop, and lines 366-369
\* (483-487) when it gives up.  Time passes in the sleeps only, so
\* k * PollSeconds is time.time() - start_time at the test of line 187; a
\* read (189-191) that finds every replica of a deployment with replicas
\* ready ends the wait (193-194), any other read, and a read that raises,
\* is followed by a sleep (196, 198)
wait_for_ready(d, t) ==
    IF ~(t.k * PollSeconds < t.timeout) THEN Raised(t, "timeout")
    ELSE LET got == Logged(t, ReadDeployment(t.name))
         IN  IF /\ t.name \in DOMAIN d
                /\ OrZero(d[t.name].replicas) > 0
                /\ OrZero(d[t.name].ready_replicas) = OrZero(d[t.name].replicas)
             THEN [got EXCEPT !.pc = "status"]
             ELSE [got EXCEPT !.k = @ + 1]

\* a start_mcp whose read sends it to the patch whatever it found
start_mcp_always_patching(d, t, api_ok) ==
    LET v == validate_mcp_name(t.name)
    IN  CASE t.pc = "read" ->
               IF ~v.ok THEN Same(d, Raised(t, "invalid_name"))
               ELSE Same(d, [read_namespaced_deployment(d, [t EXCEPT !.name = v.name])
                               EXCEPT !.pc = IF @ = "status" THEN "patch" ELSE @])
          [] t.pc = "patch" ->
               patch_namespaced_deployment(d, [t EXCEPT !.replicas = 1], api_ok,
                                           IF t.wait_ready THEN "wait" ELSE "status")
          [] t.pc = "wait" -> Same(d, wait_for_ready(d, t))
          [] OTHER -> Same(d, get_mcp_status(d, t))

\* start_mcp, lines 328-379, its next step: validate and read (345-351),
\* patch to one replica (355-361), a turn of the wait (363-369), or the
\* report (353, 372)
start_mcp(d, t, api_ok) ==
    LET v == validate_mcp_name(t.name)
    IN  CASE t.pc = "read" ->
               IF ~v.ok THEN Same(d, Raised(t, "invalid_name"))
               ELSE Same(d, read_namespaced_deployment(d, [t EXCEPT !.name = v.name]))
          [] t.pc = "patch" ->
               patch_namespaced_deployment(d, [t EXCEPT !.replicas = 1], api_ok,
                                           IF t.wait_ready THEN "wait" ELSE "status")
          [] t.pc = "wait" -> Same(d, wait_for_ready(d, t))
          [] OTHER -> Same(d, get_mcp_status(d, t))

\* stop_mcp, lines 381-442, its next step: validate and read (396-402),
\* patch to zero (406-419), delete the pods when forced (421-431, errors
\* ignored), or the report (404; 435 after the sleep of line 434)
stop_mcp(d, t, api_ok) ==
    LET v == validate_mcp_name(t.name)
    IN  CASE t.pc = "read" ->
               IF ~v.ok THEN Same(d, Raised(t, "invalid_name"))
               ELSE Same(d, read_namespaced_deployment(d, [t EXCEPT !.name = v.name]))
          [] t.pc = "patch" ->
               patch_namespaced_deployment(d, [t EXCEPT !.replicas = 0], api_ok,
                                           IF t.force THEN "delete" ELSE "status")
          [] t.pc = "delete" ->
               Same(d, [Logged(t, DeletePods(t.name)) EXCEPT !.pc = "status"])
          [] OTHER -> Same(d, get_mcp_status(d, t))

\* scale_mcp, lines 444-500, its next step: validate the name and the
\* count and read (462-469), patch (473-479), a turn of the wait (481-487),
\* or the report (471, 490)
scale_mcp(d, t, api_ok) ==
    LET v == validate_mcp_name(t.name)
    IN  CASE t.pc = "read" ->
               IF ~v.ok THEN Same(d, Raised(t, "invalid_name"))
               ELSE IF ~validate_replicas(t.replicas)
               THEN Same(d, Raised([t EXCEPT !.name = v.name], "invalid_replicas"))
               ELSE Same(d, read_namespaced_deployment(d, [t EXCEPT !.name = v.name]))
          [] t.pc = "patch" ->
               patch_namespaced_deployment(d, t, api_ok,
                                           IF t.wait_ready /\ t.replicas > 0
                                           THEN "wait" ELSE "status")
          [] t.pc = "wait" -> Same(d, wait_for_ready(d, t))
          [] OTHER -> Same(d, get_mcp_status(d, t))

\* the step of the operation t stands in
lifecycle_step(d, t, api_ok) ==
    CASE t.op = "start_mcp" -> start_mcp(d, t, api_ok)
      [] t.op = "stop_mcp" -> stop_mcp(d, t, api_ok)
      [] OTHER -> scale_mcp(d, t, api_ok)

InitLifecycle ==
    /\ InitManager({ClusterCapacity(DefaultTotalCpu, DefaultTotalMemory,
                                    DefaultTotalWorkers)})
    /\ now = 0
    /\ last = NoResult
    /\ tasks = [c \in Callers |-> Idle]
    /\ running = 0
    /\ \E deployments \in [DeployedNames -> Deployments] :
          cluster = [NoCluster EXCEPT !.deployments = deployments]

\* caller c has taken the step r; an operation that has returned (its
\* result and its cluster calls are in r.task) leaves the caller idle
Proceed(c, r) ==
    /\ cluster' = [cluster EXCEPT !.deployments = r.deployments]
    /\ tasks' = [tasks EXCEPT ![c] = IF r.task.pc = "done" THEN Idle ELSE r.task]
    /\ UNCHANGED <<mgr, now, last, running>>

\* a caller calls start_mcp: the call runs up to its first cluster call
StartMcp ==
    \E c \in Callers, name \in NameInputs, wait_ready \in BOOLEAN :
       \E timeout \in IF wait_ready THEN TimeoutInputs ELSE {DefaultTimeout} :
          /\ tasks[c] = Idle
          /\ Proceed(c, start_mcp(cluster.deployments,
                                  Invocation("start_mcp", name, 1, wait_ready,
                                             FALSE, timeout), TRUE))

\* a caller calls stop_mcp
StopMcp ==
    \E c \in Callers, name \in NameInputs, force \in BOOLEAN :
       /\ tasks[c] = Idle
       /\ Proceed(c, stop_mcp(cluster.deployments,
                              Invocation("stop_mcp", name, 0, FALSE, force,
                                         DefaultTimeout), TRUE))

\* a caller calls scale_mcp
ScaleMcp ==
    \E c \in Callers, name \in NameInputs, replicas \in ReplicaInputs, wait_ready \in BOOLEAN :
       \E timeout \in IF wait_ready THEN TimeoutInputs ELSE {DefaultTimeout} :
          /\ tasks[c] = Idle
          /\ Proceed(c, scale_mcp(cluster.deployments,
                                  Invocation("scale_mcp", name, replicas,
                                             wait_ready, FALSE, timeout), TRUE))

\* a caller calls get_mcp_status, lines 270-326: one read of the deployment
\* and one of the service, which leave the cluster and the caller as they
\* were
GetMcpStatus ==
    \E c \in Callers, name \in NameInputs :
       LET t == Invocation("get_mcp_status", name, 0, FALSE, FALSE, DefaultTimeout)
           v == validate_mcp_name(name)
       IN  /\ tasks[c] = Idle
           /\ Proceed(c, Same(cluster.deployments,
                              IF ~v.ok THEN Raised(t, "invalid_name")
                              ELSE get_mcp_status(cluster.deployments,
                                                  [t EXCEPT !.name = v.name])))

\* the thread of an operation in flight makes its next cluster call, after
\* whatever the other callers and the cluster did in between: the patch,
\* which the API server applies or refuses
PatchStep ==
    \E c \in Callers, api_ok \in BOOLEAN :
       /\ tasks[c].pc = "patch"
       /\ Proceed(c, lifecycle_step(cluster.deployments, tasks[c], api_ok))

\* stop_mcp, lines 421-431
DeletePodsStep ==
    \E c \in Callers :
       /\ tasks[c].pc = "delete"
       /\ Proceed(c, lifecycle_step(cluster.deployments, tasks[c], TRUE))

\* a turn of _wait_for_ready after its sleep, or its giving up
WaitStep ==
    \E c \in Callers :
       /\ tasks[c].pc = "wait"
       /\ Proceed(c, lifecycle_step(cluster.deployments, tasks[c], TRUE))

\* the report of get_mcp_status (lines 353, 372, 404, 435, 471, 490), with
\* which the operation returns
StatusStep ==
    \E c \in Callers :
       /\ tasks[c].pc = "status"
       /\ Proceed(c, lifecycle_step(cluster.deployments, tasks[c], TRUE))

\* the deployment controller of the cluster brings pods up or takes them
\* down and writes the deployment's status
DeploymentController ==
    /\ \E name \in DOMAIN cluster.deployments :
          \E ready \in ReadyCounts(OrZero(cluster.deployments[name].replicas)) :
             cluster' = [cluster EXCEPT
                           !.deployments[name].ready_replicas = {ready},
                           !.deployments[name].status_replicas =
                               {OrZero(cluster.deployments[name].replicas)}]
    /\ UNCHANGED <<mgr, now, last, tasks, running>>

LifecycleNext ==
    \/ StartMcp
    \/ StopMcp
    \/ ScaleMcp
    \/ GetMcpStatus
    \/ PatchStep
    \/ DeletePodsStep
    \/ WaitStep
    \/ StatusStep
    \/ DeploymentController

SpecLifecycle == InitLifecycle /\ [][LifecycleNext]_vars

\* replicas of the deployment an operation in flight works on, as they are
\* in the cluster now
CurrentReplicas(t) ==
    IF t.name \in DOMAIN cluster.deployments
    THEN OrZero(cluster.deployments[t.name].replicas) ELSE 0

\* this step is caller c's patch call
PatchBy(c) == tasks[c].pc = "patch" /\ tasks'[c] # tasks[c]

\* this step is the status report of an operation of caller c that has
\* issued no patch
UnpatchedReportBy(c) ==
    /\ tasks[c].op \in {"start_mcp", "stop_mcp", "scale_mcp"}
    /\ tasks[c].pc = "status" /\ tasks'[c] # tasks[c]
    /\ \A k \in DOMAIN tasks[c].calls :
          tasks[c].calls[k][1] # "patch_namespaced_deployment"

\* the report returns the status of the deployment as it is and changes
\* nothing
ReturnsCurrentStatus(c) ==
    LET d == cluster.deployments[tasks[c].name]
        r == lifecycle_step(cluster.deployments, tasks[c], TRUE)
    IN  /\ cluster'.deployments = cluster.deployments
        /\ tasks'[c] = Idle
        /\ r.task.result = McpResult(tasks[c].op, tasks[c].name,
                                     get_deployment_status(d), "none",
                                     OrZero(d.replicas), OrZero(d.ready_replicas))

\* scale_mcp with a count outside 0..ReplicaLimit returns an error and has
\* made no cluster call
InvalidReplicasFailFirst ==
    \A name \in NameInputs, replicas \in {-1, ReplicaLimit + 1}, wait_ready \in BOOLEAN :
        LET r == scale_mcp(cluster.deployments,
                           Invocation("scale_mcp", name, replicas, wait_ready,
                                      FALSE, DefaultTimeout), TRUE)
        IN  /\ r.task.pc = "done"
            /\ r.task.result.status = "error"
            /\ r.task.calls = <<>>
            /\ r.deployments = cluster.deployments
            /\ validate_mcp_name(name).ok =>
                  r.task.result.error = "invalid_replicas"

OwnReadDecides ==
    /\ []InvalidReplicasFailFirst
    /\ [][\A c \in Callers :
            /\ PatchBy(c) => ~AtDesiredState(tasks[c], tasks[c].current_replicas)
            /\ UnpatchedReportBy(c) => ReturnsCurrentStatus(c)]_vars

\* a start_mcp whose read found two replicas is about to report, having
\* made that one cluster call, while the other caller's stop_mcp has
\* patched the deployment to zero in between
OwnReadDecides_Witness ==
    \E c \in Callers, o \in Callers :
        /\ tasks[c].op = "start_mcp" /\ tasks[c].pc = "status"
        /\ tasks[c].current_replicas = 2
        /\ Len(tasks[c].calls) = 1
        /\ tasks[o].op = "stop_mcp" /\ tasks[o].pc = "status"
        /\ CurrentReplicas(tasks[c]) = 0

====
